---- MODULE Spec2Model ----
(***************************************************************************)
(* pyvalidation: the ordered processor pipeline (ProcessorBundle,          *)
(* ParseInput, ValidateInput), the per-value InputValueWrapper flags and   *)
(* the FuncWrapper that binds a call's arguments, runs the pipeline and    *)
(* calls the wrapped function.                                             *)
(*                                                                         *)
(* Python positions are 0-based; TLA+ sequences are 1-based.  Argument     *)
(* tuples are sequences indexed 1..n, and every position stored in an      *)
(* error or in a log is the Python (0-based) index.                        *)
(***************************************************************************)
EXTENDS Integers, Sequences, FiniteSets, TLC

\* Number of stages a pipeline may hold in the model.
MaxStages == 2

\* Number of parameters of the wrapped function.
Arity == 2

---------------------------------------------------------------------------
(* Python values: the runtime type and the text str() gives for the value. *)

PyInt(text) == [type |-> "int", repr |-> text]
PyStr(text) == [type |-> "str", repr |-> text]
PyBool(text) == [type |-> "bool", repr |-> text]

PyFloat(text) == [type |-> "float", repr |-> text]

\* An instance of a user-defined class (class Qux: pass; class Baz(Qux): pass).
PyObject(cls) == [type |-> cls, repr |-> "<" \o cls \o " object>"]

\* Texts int() accepts as a base-10 literal, within the model's values.
IntLiterals == {"0", "1", "2"}

\* The classes a value of the given runtime type is an instance of.
Mro(type) ==
    CASE type = "bool" -> {"bool", "int", "object"}
      [] type = "int" -> {"int", "object"}
      [] type = "str" -> {"str", "object"}
      [] type = "Baz" -> {"Baz", "Qux", "object"}
      [] OTHER -> {type, "object"}

\* The largest magnitude of a number among the model's values.
MaxInt == 10

\* The int n, and the float h/2 (h an integer number of halves).
PyIntN(n) == PyInt(ToString(n))

RECURSIVE FloatText(_)
FloatText(h) ==
    IF h < 0 THEN "-" \o FloatText(0 - h)
    ELSE ToString(h \div 2) \o (IF h % 2 = 0 THEN ".0" ELSE ".5")

PyFloatHalves(h) == PyFloat(FloatText(h))

PyTrue == PyBool("True")
PyFalse == PyBool("False")

IsNumber(x) == x.type \in {"int", "bool", "float"}

\* Twice the numeric value of a number (so that n.5 is an integer).
Twice(x) ==
    CASE x.type = "int" -> 2 * (CHOOSE n \in (0 - MaxInt - 1)..(MaxInt + 1) : ToString(n) = x.repr)
      [] x.type = "bool" -> IF x = PyTrue THEN 2 ELSE 0
      [] x.type = "float" ->
            CHOOSE h \in (0 - 2 * MaxInt - 2)..(2 * MaxInt + 2) : FloatText(h) = x.repr

\* a == b in Python: numbers compare by value whatever their types, other
\* values are equal when they are the same value of the same type.
PyEq(a, b) == IF IsNumber(a) /\ IsNumber(b) THEN Twice(a) = Twice(b) ELSE a = b

---------------------------------------------------------------------------
(* InputValueWrapper.  A bare value is a record with wrapped = FALSE; its  *)
(* two flag fields are then unused.                                        *)

Bare(value) ==
    [wrapped |-> FALSE, wrapped_value |-> value, validate |-> TRUE, parse |-> TRUE]

InputValueWrapper(value, validate, parse) ==
    [wrapped |-> TRUE, wrapped_value |-> value, validate |-> validate, parse |-> parse]

\* isinstance(arg, InputValueWrapper)
IsWrapper(arg) == arg.wrapped

---------------------------------------------------------------------------
(* operations.py: expressions over the argument placeholder.               *)
(*                                                                         *)
(* The text of an expression (Operation.expr) is kept as the sequence of   *)
(* its pieces, the piece "x" standing for the placeholder and the piece    *)
(* "{}" for a slot of an operator's template; Text joins the pieces.  The  *)
(* expressions of the model have no subscript (x[i]) and no string         *)
(* constant holding the letter x next to other letters, so that the        *)
(* pieces "x" are exactly the places Operation.format's patterns match.    *)
(*                                                                         *)
(* While an expression is evaluated a number is a record of its type and   *)
(* twice its value, so that results are not limited to the numerals of     *)
(* the model's inputs; ToNumber and ToPy convert from and to values.       *)

\* The outcome of a call: the value returned, or the message of the
\* exception raised.
Returned(value) == [raised |-> FALSE, value |-> value, message |-> ""]
Raised(message) == [raised |-> TRUE, value |-> PyStr(""), message |-> message]

\* body(value): a result is computed once and named in what follows.
With(value, body(_)) == body(value)

Number(type, twice) == [type |-> type, twice |-> twice]
IsNum(v) == "twice" \in DOMAIN v
IsIntLike(v) == IsNum(v) /\ v.type \in {"int", "bool"}

\* The integers an operand of an expression may stand for.
Wide == 2 * MaxInt

ToNumber(x) ==
    CASE x.type = "int" ->
            Number("int", 2 * (CHOOSE n \in (0 - Wide)..Wide : ToString(n) = x.repr))
      [] x.type \in {"bool", "float"} -> Number(x.type, Twice(x))
      [] OTHER -> x

ToPy(v) ==
    IF ~IsNum(v) THEN v
    ELSE CASE v.type = "int" -> PyIntN(v.twice \div 2)
           [] v.type = "bool" -> IF v.twice = 0 THEN PyFalse ELSE PyTrue
           [] v.type = "float" -> PyFloatHalves(v.twice)

\* bool(v)
Truth(v) == IF IsNum(v) THEN v.twice # 0 ELSE v.repr # ""

\* Integer arithmetic as Python defines it: // rounds down and % takes the
\* sign of the divisor, whatever the signs of the operands.
FloorDiv(a, b) == IF b > 0 THEN a \div b ELSE (0 - a) \div (0 - b)
Modulo(a, b) == a - b * FloorDiv(a, b)

\* n / d for a quotient that is an integer; no other quotient is taken.
Exact(n, d) == CHOOSE q \in {FloorDiv(n, d)} : q * d = n

RECURSIVE Pow(_, _)
Pow(a, n) == IF n = 0 THEN 1 ELSE a * Pow(a, n - 1)

\* &, | and ^ of two integers in two's complement of unbounded width.
RECURSIVE BitAnd(_, _)
BitAnd(a, b) ==
    IF a = 0 \/ b = 0 THEN 0
    ELSE IF a = 0 - 1 THEN b
    ELSE IF b = 0 - 1 THEN a
    ELSE (a % 2) * (b % 2) + 2 * BitAnd(a \div 2, b \div 2)

RECURSIVE BitOr(_, _)
BitOr(a, b) ==
    IF a = 0 THEN b
    ELSE IF b = 0 THEN a
    ELSE IF a = 0 - 1 \/ b = 0 - 1 THEN 0 - 1
    ELSE (IF a % 2 = 1 \/ b % 2 = 1 THEN 1 ELSE 0) + 2 * BitOr(a \div 2, b \div 2)

\* a | b in the place of a ^ b.
BitXor_inclusive(a, b) == BitOr(a, b)

RECURSIVE BitXor(_, _)
BitXor(a, b) ==
    IF a = 0 THEN b
    ELSE IF b = 0 THEN a
    ELSE IF a = 0 - 1 THEN 0 - b - 1
    ELSE IF b = 0 - 1 THEN 0 - a - 1
    ELSE (IF a % 2 = b % 2 THEN 0 ELSE 1) + 2 * BitXor(a \div 2, b \div 2)

RECURSIVE Repeat(_, _)
Repeat(text, n) == IF n <= 0 THEN "" ELSE text \o Repeat(text, n - 1)

\* The symbol Python names an operator by in its error messages.
Symbol(func) ==
    CASE func = "__add__" -> "+"
      [] func = "__sub__" -> "-"
      [] func = "__floordiv__" -> "//"
      [] func = "__mod__" -> "%"
      [] func = "__mul__" -> "*"
      [] func = "__matmul__" -> "@"
      [] func = "__pow__" -> "** or pow()"
      [] func = "__truediv__" -> "/"
      [] func = "__neg__" -> "unary -"
      [] func = "__pos__" -> "unary +"
      [] func = "__abs__" -> "abs()"
      [] func = "__and__" -> "&"
      [] func = "__or__" -> "|"
      [] func = "__xor__" -> "^"
      [] func = "__lshift__" -> "<<"
      [] func = "__rshift__" -> ">>"
      [] func = "__invert__" -> "unary ~"
      [] func = "__lt__" -> "<"
      [] func = "__le__" -> "<="
      [] func = "__eq__" -> "=="
      [] func = "__ne__" -> "!="
      [] func = "__ge__" -> ">="
      [] func = "__gt__" -> ">"

Unsupported(func, a, b) ==
    Raised("unsupported operand type(s) for " \o Symbol(func) \o ": '"
           \o a.type \o "' and '" \o b.type \o "'")

NotSupported(func, a, b) ==
    Raised("'" \o Symbol(func) \o "' not supported between instances of '"
           \o a.type \o "' and '" \o b.type \o "'")

BadOperand(func, a) ==
    Raised("bad operand type for " \o Symbol(func) \o ": '" \o a.type \o "'")

ArithmeticFuncs ==
    {"__add__", "__sub__", "__floordiv__", "__mod__", "__mul__", "__pow__", "__truediv__"}
BitwiseFuncs == {"__and__", "__or__", "__xor__", "__lshift__", "__rshift__"}
ComparisonFuncs == {"__lt__", "__le__", "__eq__", "__ne__", "__ge__", "__gt__"}
UnaryFuncs == {"__neg__", "__pos__", "__abs__", "__invert__"}

\* The type of the result of an arithmetic operator on two numbers.
Wider(a, b) == IF a.type = "float" \/ b.type = "float" THEN "float" ELSE "int"

\* a ** b of two numbers; the exponent is a whole number.
PyPow(a, b) ==
    LET n == Exact(b.twice, 2) IN
    IF n >= 0
    THEN Returned(Number(Wider(a, b), Exact(2 * Pow(a.twice, n), Pow(2, n))))
    ELSE IF a.twice = 0
         THEN Raised("0.0 cannot be raised to a negative power")
         ELSE Returned(Number("float", Exact(2 * Pow(2, 0 - n), Pow(a.twice, 0 - n))))

\* The arithmetic operators on two numbers.
PyArithmetic(func, a, b) ==
    LET T == Wider(a, b) IN
    CASE func = "__add__" -> Returned(Number(T, a.twice + b.twice))
      [] func = "__sub__" -> Returned(Number(T, a.twice - b.twice))
      [] func = "__mul__" -> Returned(Number(T, Exact(a.twice * b.twice, 2)))
      [] func = "__truediv__" ->
            IF b.twice = 0
            THEN Raised(IF T = "float" THEN "float division by zero" ELSE "division by zero")
            ELSE Returned(Number("float", Exact(2 * a.twice, b.twice)))
      [] func = "__floordiv__" ->
            IF b.twice = 0
            THEN Raised(IF T = "float" THEN "float floor division by zero"
                        ELSE "integer division or modulo by zero")
            ELSE Returned(Number(T, 2 * FloorDiv(a.twice, b.twice)))
      [] func = "__mod__" ->
            IF b.twice = 0
            THEN Raised(IF T = "float" THEN "float modulo" ELSE "integer modulo by zero")
            ELSE Returned(Number(T, Modulo(a.twice, b.twice)))
      [] func = "__pow__" -> PyPow(a, b)

\* The bitwise operators on two ints or bools.
PyBitwise(func, a, b) ==
    LET m == a.twice \div 2
        n == b.twice \div 2
        T == IF a.type = "bool" /\ b.type = "bool" THEN "bool" ELSE "int"
    IN  CASE func = "__and__" -> Returned(Number(T, 2 * BitAnd(m, n)))
          [] func = "__or__" -> Returned(Number(T, 2 * BitOr(m, n)))
          [] func = "__xor__" -> Returned(Number(T, 2 * BitXor(m, n)))
          [] func = "__lshift__" ->
                IF n < 0 THEN Raised("negative shift count")
                ELSE Returned(Number("int", 2 * m * Pow(2, n)))
          [] func = "__rshift__" ->
                IF n < 0 THEN Raised("negative shift count")
                ELSE Returned(Number("int", 2 * FloorDiv(m, Pow(2, n))))

\* The comparison operators on two numbers.
PyCompare(func, a, b) ==
    LET holds == CASE func = "__lt__" -> a.twice < b.twice
                   [] func = "__le__" -> a.twice <= b.twice
                   [] func = "__eq__" -> a.twice = b.twice
                   [] func = "__ne__" -> a.twice # b.twice
                   [] func = "__ge__" -> a.twice >= b.twice
                   [] func = "__gt__" -> a.twice > b.twice
    IN  Returned(Number("bool", IF holds THEN 2 ELSE 0))

\* A binary operator with a str among its operands.
PyStrBinary(func, a, b) ==
    IF func = "__eq__" THEN Returned(Number("bool", IF a = b THEN 2 ELSE 0))
    ELSE IF func = "__ne__" THEN Returned(Number("bool", IF a = b THEN 0 ELSE 2))
    ELSE IF func \in ComparisonFuncs /\ (IsNum(a) \/ IsNum(b)) THEN NotSupported(func, a, b)
    ELSE IF func = "__add__" /\ ~IsNum(a)
    THEN IF IsNum(b)
         THEN Raised("can only concatenate str (not \"" \o b.type \o "\") to str")
         ELSE Returned(PyStr(a.repr \o b.repr))
    ELSE IF func = "__mul__" /\ IsIntLike(b)
    THEN Returned(PyStr(Repeat(a.repr, b.twice \div 2)))
    ELSE IF func = "__mul__" /\ IsIntLike(a)
    THEN Returned(PyStr(Repeat(b.repr, a.twice \div 2)))
    ELSE IF func = "__mul__"
    THEN Raised("can't multiply sequence by non-int of type '"
                \o (IF IsNum(a) THEN a.type ELSE b.type) \o "'")
    ELSE IF func = "__mod__" /\ ~IsNum(a)
    THEN Raised("not all arguments converted during string formatting")
    ELSE Unsupported(func, a, b)

\* operator.__add__(a, b) and the other binary functions of module operator.
PyBinary(func, a, b) ==
    IF func = "__matmul__" THEN Unsupported(func, a, b)
    ELSE IF ~IsNum(a) \/ ~IsNum(b) THEN PyStrBinary(func, a, b)
    ELSE IF func \in ComparisonFuncs THEN PyCompare(func, a, b)
    ELSE IF func \in ArithmeticFuncs THEN PyArithmetic(func, a, b)
    ELSE IF IsIntLike(a) /\ IsIntLike(b) THEN PyBitwise(func, a, b)
    ELSE Unsupported(func, a, b)

\* not a in the place of each unary operator.
PyUnary_not(func, a) ==
    IF ~IsNum(a) THEN BadOperand(func, a)
    ELSE Returned(Number("bool", IF Truth(a) THEN 0 ELSE 2))

\* operator.__neg__(a) and the other unary functions of module operator.
PyUnary(func, a) ==
    LET T == IF a.type = "bool" THEN "int" ELSE a.type IN
    IF ~IsNum(a) THEN BadOperand(func, a)
    ELSE CASE func = "__neg__" -> Returned(Number(T, 0 - a.twice))
           [] func = "__pos__" -> Returned(Number(T, a.twice))
           [] func = "__abs__" ->
                 Returned(Number(T, IF a.twice < 0 THEN 0 - a.twice ELSE a.twice))
           [] func = "__invert__" ->
                 IF IsIntLike(a) THEN Returned(Number("int", 0 - a.twice - 2))
                 ELSE BadOperand(func, a)

\* The number of slots of an operator's template.
RECURSIVE Slots(_)
Slots(expr) ==
    IF expr = <<>> THEN 0 ELSE (IF Head(expr) = "{}" THEN 1 ELSE 0) + Slots(Tail(expr))

\* Operator.__init__
Operator(class, expr, func) == [kind |-> class, expr |-> expr, func |-> func]

\* BinaryOperator.__init__: a template without two slots is the symbol put
\* between its operands.
BinaryOperator(expr, func) ==
    Operator("BinaryOperator",
             IF Slots(expr) >= 2 THEN expr ELSE <<"{}", " ">> \o expr \o <<" ", "{}">>,
             func)

\* UnaryOperator.__init__: a template without a slot is the symbol put
\* before its operand.
UnaryOperator(expr, func) ==
    Operator("UnaryOperator", IF Slots(expr) >= 1 THEN expr ELSE expr \o <<"{}">>, func)

\* Operator.__call__
Operator_call(op, args) ==
    IF Len(args) = 2 THEN PyBinary(op.func, args[1], args[2]) ELSE PyUnary(op.func, args[1])

\* str.format: the slots of the template are filled in order.
RECURSIVE Fill(_, _)
Fill(template, texts) ==
    IF template = <<>> THEN <<>>
    ELSE IF Head(template) = "{}" THEN Head(texts) \o Fill(Tail(template), Tail(texts))
    ELSE <<Head(template)>> \o Fill(Tail(template), texts)

\* Operator.format: a BinaryOperation among the operands is parenthesised.
Operator_format(op, args) ==
    Fill(op.expr,
         [i \in DOMAIN args |->
            IF args[i].kind = "BinaryOperation"
            THEN <<"(">> \o args[i].expr \o <<")">>
            ELSE args[i].expr])

\* The operators defined as attributes of class Operator.
Operator_attr(name) ==
    CASE name = "__add__" -> BinaryOperator(<<"+">>, name)
      [] name = "__sub__" -> BinaryOperator(<<"-">>, name)
      [] name = "__floordiv__" -> BinaryOperator(<<"//">>, name)
      [] name = "__mod__" -> BinaryOperator(<<"%">>, name)
      [] name = "__mul__" -> BinaryOperator(<<"*">>, name)
      [] name = "__matmul__" -> BinaryOperator(<<"@">>, name)
      [] name = "__pow__" -> BinaryOperator(<<"**">>, name)
      [] name = "__truediv__" -> BinaryOperator(<<"/">>, name)
      [] name = "__neg__" -> UnaryOperator(<<"-">>, name)
      [] name = "__pos__" -> UnaryOperator(<<"+">>, name)
      [] name = "__abs__" -> UnaryOperator(<<"|", "{}", "|">>, name)
      [] name = "__and__" -> BinaryOperator(<<"&">>, name)
      [] name = "__or__" -> BinaryOperator(<<"|">>, name)
      [] name = "__xor__" -> BinaryOperator(<<"^">>, name)
      [] name = "__lshift__" -> BinaryOperator(<<"<<">>, name)
      [] name = "__rshift__" -> BinaryOperator(<<">>">>, name)
      [] name = "__invert__" -> UnaryOperator(<<"~">>, name)
      [] name = "__lt__" -> BinaryOperator(<<"<">>, name)
      [] name = "__le__" -> BinaryOperator(<<"<=">>, name)
      [] name = "__eq__" -> BinaryOperator(<<"==">>, name)
      [] name = "__ne__" -> BinaryOperator(<<"!=">>, name)
      [] name = "__ge__" -> BinaryOperator(<<">=">>, name)
      [] name = "__gt__" -> BinaryOperator(<<">">>, name)

OperationKinds == {"Identity", "Constant", "BinaryOperation", "UnaryOperation"}

\* isinstance(obj, Operation)
IsOperation(obj) == "kind" \in DOMAIN obj /\ obj.kind \in OperationKinds

\* Identity.__init__
Identity == [kind |-> "Identity", expr |-> <<"x">>]

\* The placeholder: arg = placeholder = Identity()
placeholder == Identity

\* str(k), a str being quoted.
Literal(k) == IF k.type = "str" THEN "'" \o k.repr \o "'" ELSE k.repr

\* Constant.__init__
Constant(k) == [kind |-> "Constant", expr |-> <<Literal(k)>>, k |-> k]

\* An operand that is not an Operation stands for the constant.
Promoted(g) == IF IsOperation(g) THEN g ELSE Constant(g)

\* BinaryOperation.__init__
BinaryOperation(op, g, h) ==
    [kind |-> "BinaryOperation",
     expr |-> Operator_format(op, <<Promoted(g), Promoted(h)>>),
     op |-> op, g |-> Promoted(g), h |-> Promoted(h)]

\* UnaryOperation.__init__
UnaryOperation(op, g) ==
    [kind |-> "UnaryOperation",
     expr |-> Operator_format(op, <<Promoted(g)>>),
     op |-> op, g |-> Promoted(g)]

\* Operation.__add__ and the other binary operator methods of an expression.
Operation_binary(name, self, other) == BinaryOperation(Operator_attr(name), self, other)

\* Operation.__neg__ and the other unary operator methods of an expression.
Operation_unary(name, self) == UnaryOperation(Operator_attr(name), self)

\* The pieces of a text joined.
RECURSIVE Text(_)
Text(pieces) == IF pieces = <<>> THEN "" ELSE Head(pieces) \o Text(Tail(pieces))

\* Operation.__str__
Operation_str(e) == Text(e.expr)

\* Operation.format: every placeholder symbol is replaced by the literal of x.
Operation_format(e, x) ==
    Text([i \in DOMAIN e.expr |-> IF e.expr[i] = "x" THEN Literal(x) ELSE e.expr[i]])

RECURSIVE Operation_eval(_, _)

\* BinaryOperation.__call__ leaving the operator out: g(x).
BinaryOperation_call_unapplied(e, x) == Operation_eval(e.g, x)

\* BinaryOperation.__call__: op(g(x), h(x)), g(x) being evaluated first.
BinaryOperation_call(e, x) ==
    LET g == Operation_eval(e.g, x) IN
    IF g.raised THEN g
    ELSE LET h == Operation_eval(e.h, x) IN
         IF h.raised THEN h ELSE Operator_call(e.op, <<g.value, h.value>>)

\* UnaryOperation.__call__: op(g(x))
UnaryOperation_call(e, x) ==
    LET g == Operation_eval(e.g, x) IN
    IF g.raised THEN g ELSE Operator_call(e.op, <<g.value>>)

\* Operation.__call__ on the number or str x.
Operation_eval(e, x) ==
    CASE e.kind = "Identity" -> Returned(x)
      [] e.kind = "Constant" -> Returned(ToNumber(e.k))
      [] e.kind = "BinaryOperation" -> BinaryOperation_call(e, x)
      [] e.kind = "UnaryOperation" -> UnaryOperation_call(e, x)

\* e(x) for the value x: the value returned or the exception raised.
Operation_call(e, x) ==
    With(Operation_eval(e, ToNumber(x)),
         LAMBDA r : IF r.raised THEN r ELSE Returned(ToPy(r.value)))

---------------------------------------------------------------------------
(* Validators.                                                             *)

TypeValidator(types, check_subclasses, check_bool_subclasses) ==
    [kind |-> "TypeValidator", types |-> types,
     check_subclasses |-> check_subclasses,
     check_bool_subclasses |-> check_bool_subclasses]

EmptyValidator ==
    [kind |-> "EmptyValidator", types |-> {},
     check_subclasses |-> TRUE, check_bool_subclasses |-> FALSE]

\* check testing isinstance whatever the flags and the argument's type.
TypeValidator_check_isinstance(v, arg) == Mro(arg.type) \cap v.types # {}

\* TypeValidator.check
TypeValidator_check(v, arg) ==
    LET cls == arg.type IN
    IF ~v.check_subclasses \/ (~v.check_bool_subclasses /\ cls = "bool")
    THEN cls \in v.types
    ELSE Mro(cls) \cap v.types # {}

\* ' or '.join(names), the names taken in some order of the set.
RECURSIVE JoinOr(_)
JoinOr(names) ==
    IF names = {} THEN ""
    ELSE LET n == CHOOSE x \in names : TRUE IN
         IF names = {n} THEN n ELSE n \o " or " \o JoinOr(names \ {n})

\* TypeValidator.error_message
TypeValidator_error_message(v, arg) ==
    "Type " \o JoinOr(v.types) \o " expected but got " \o arg.type

\* ValueValidator.__init__: the values are kept as a tuple.
ValueValidator(values, match_types) ==
    [kind |-> "ValueValidator", values |-> values, match_types |-> match_types]

\* check comparing with == only, whatever match_types.
ValueValidator_check_equal(v, arg) ==
    \E i \in 1..Len(v.values) : PyEq(arg, v.values[i])

\* ValueValidator.check
ValueValidator_check(v, arg) ==
    \E i \in 1..Len(v.values) :
        PyEq(arg, v.values[i]) /\ (~v.match_types \/ arg.type = v.values[i].type)

\* ' or '.join([str(value) for value in self.values])
RECURSIVE JoinOrSeq(_)
JoinOrSeq(values) ==
    IF values = <<>> THEN ""
    ELSE IF Len(values) = 1 THEN values[1].repr
    ELSE values[1].repr \o " or " \o JoinOrSeq(Tail(values))

\* ValueValidator.error_message
ValueValidator_error_message(v, arg) ==
    "Value " \o JoinOrSeq(v.values) \o " expected but got " \o arg.repr

\* RangeValidator.__init__ on range(start, stop, step), step # 0.
RangeValidator(start, stop, step, match_types) ==
    [kind |-> "RangeValidator", start |-> start, stop |-> stop, step |-> step,
     match_types |-> match_types]

\* n in range(start, stop, step) for an integer n.
IntInRange(n, start, stop, step) ==
    IF step > 0
    THEN start <= n /\ n < stop /\ (n - start) % step = 0
    ELSE stop < n /\ n <= start /\ (start - n) % (0 - step) = 0

\* arg in self.interval: an int or a bool is tested by arithmetic, any other
\* value by comparing it with the elements, so that 9.0 is in range(10).
InRange(arg, start, stop, step) ==
    /\ IsNumber(arg)
    /\ Twice(arg) % 2 = 0
    /\ IntInRange(Twice(arg) \div 2, start, stop, step)

\* check testing membership only, whatever match_types.
RangeValidator_check_in(v, arg) == InRange(arg, v.start, v.stop, v.step)

\* RangeValidator.check
RangeValidator_check(v, arg) ==
    InRange(arg, v.start, v.stop, v.step) /\ (~v.match_types \/ arg.type = "int")

\* str(range(start, stop, step))
RangeStr(start, stop, step) ==
    "range(" \o ToString(start) \o ", " \o ToString(stop)
    \o (IF step = 1 THEN "" ELSE ", " \o ToString(step)) \o ")"

\* RangeValidator.error_message
RangeValidator_error_message(v, arg) ==
    "Value in " \o RangeStr(v.start, v.stop, v.step) \o " expected but got " \o arg.repr

\* A function object defined by the user, known by its __qualname__.
PyFunction(name) == [kind |-> "function", name |-> name]

\* The user's functions of the model:
\*   def truthy(x): return True        def falsy(x): return False
\*   def boom(x): raise Exception('boom')   def silent(x): raise Exception()
UserFunctions == {"truthy", "falsy", "boom", "silent"}

\* UserValidator.__init__; func is a callable object.
UserValidator(func) == [kind |-> "UserValidator", func |-> func]

RECURSIVE Validator_call(_, _)

\* func(arg): the truth value returned, or the message of the exception
\* raised.  A Validator used as func returns a non-empty tuple, which is true;
\* an expression used as func returns the value it evaluates to.
CallFunction(func, arg) ==
    IF IsOperation(func)
    THEN With(Operation_eval(func, ToNumber(arg)), LAMBDA r :
         [raised |-> r.raised, truthy |-> ~r.raised /\ Truth(r.value), message |-> r.message])
    ELSE IF func.kind = "function"
    THEN CASE func.name = "truthy" -> [raised |-> FALSE, truthy |-> TRUE, message |-> ""]
           [] func.name = "falsy" -> [raised |-> FALSE, truthy |-> FALSE, message |-> ""]
           [] func.name = "boom" -> [raised |-> TRUE, truthy |-> FALSE, message |-> "boom"]
           [] func.name = "silent" -> [raised |-> TRUE, truthy |-> FALSE, message |-> ""]
    ELSE With(Validator_call(func, arg), LAMBDA r :
         [raised |-> r.raised, truthy |-> ~r.raised, message |-> r.message])

\* UserValidator.error_message: the function's __qualname__ when it has one.
UserValidator_error_message(v, arg) ==
    "Expression" \o (IF v.func.kind = "function" THEN " " \o v.func.name ELSE "")
    \o " evaluated to False"

\* isinstance(v, ComposedValidator)
IsComposed(v) == v.kind = "ComposedValidator"

\* ComposedValidator.__init__ / extend / add: the items are added in order, a
\* ComposedValidator among them being replaced by its members.
RECURSIVE Flattened(_)
Flattened(items) ==
    IF items = <<>> THEN <<>>
    ELSE (IF IsComposed(items[1]) THEN Flattened(items[1].validators) ELSE <<items[1]>>)
         \o Flattened(Tail(items))

ComposedValidator(items) ==
    [kind |-> "ComposedValidator", validators |-> Flattened(items)]

\* The outcome of check(arg): the truth value returned or the message of the
\* exception that escaped, and the members of a ComposedValidator whose check
\* was called (1-based, in call order).
Checked(truthy) ==
    [raised |-> FALSE, truthy |-> truthy, message |-> "", invoked |-> <<>>]

RECURSIVE Validator_check(_, _)

\* ComposedValidator.check's loop over the members, from member i on.
RECURSIVE ComposedValidator_check_from(_, _, _)
ComposedValidator_check_from(v, arg, i) ==
    IF i > Len(v.validators) THEN Checked(FALSE)
    ELSE With(Validator_check(v.validators[i], arg), LAMBDA c :
         IF c.raised \/ c.truthy
         THEN [c EXCEPT !.invoked = <<i>>]
         ELSE With(ComposedValidator_check_from(v, arg, i + 1), LAMBDA rest :
              [rest EXCEPT !.invoked = <<i>> \o rest.invoked]))

\* check evaluating every member before it answers:
\* any([validator.check(arg) for validator in self]).
RECURSIVE ComposedValidator_check_every_from(_, _, _)
ComposedValidator_check_every_from(v, arg, i) ==
    IF i > Len(v.validators) THEN Checked(FALSE)
    ELSE With(Validator_check(v.validators[i], arg), LAMBDA c :
         IF c.raised
         THEN [c EXCEPT !.invoked = <<i>>]
         ELSE With(ComposedValidator_check_every_from(v, arg, i + 1), LAMBDA rest :
              [rest EXCEPT !.invoked = <<i>> \o rest.invoked,
                           !.truthy = (c.truthy \/ rest.truthy) /\ ~rest.raised]))

ComposedValidator_check_every(v, arg) == ComposedValidator_check_every_from(v, arg, 1)

\* ComposedValidator.check
ComposedValidator_check(v, arg) == ComposedValidator_check_from(v, arg, 1)

\* UserValidator.check
UserValidator_check(v, arg) ==
    With(CallFunction(v.func, arg), LAMBDA r :
    [raised |-> r.raised, truthy |-> r.truthy, message |-> r.message, invoked |-> <<>>])

\* validator.check(arg), dispatched on the validator's class.
Validator_check(v, arg) ==
    CASE v.kind = "TypeValidator" -> Checked(TypeValidator_check(v, arg))
      [] v.kind = "EmptyValidator" -> Checked(TRUE)
      [] v.kind = "ValueValidator" -> Checked(ValueValidator_check(v, arg))
      [] v.kind = "RangeValidator" -> Checked(RangeValidator_check(v, arg))
      [] v.kind = "UserValidator" -> UserValidator_check(v, arg)
      [] v.kind = "ComposedValidator" -> ComposedValidator_check(v, arg)

\* check(arg) returned a true value.
Check(v, arg) ==
    With(Validator_check(v, arg), LAMBDA c : ~c.raised /\ c.truthy)

\* Validator.error_message, dispatched on the validator's class; the base
\* class gives ''.
ErrorMessage(v, arg) ==
    CASE v.kind = "TypeValidator" -> TypeValidator_error_message(v, arg)
      [] v.kind = "ValueValidator" -> ValueValidator_error_message(v, arg)
      [] v.kind = "RangeValidator" -> RangeValidator_error_message(v, arg)
      [] v.kind = "UserValidator" -> UserValidator_error_message(v, arg)
      [] OTHER -> ""

\* The outcomes of validator(arg): (True, None), (False, error), or an
\* exception that escapes the call.
Valid(invoked) ==
    [valid |-> TRUE, error |-> "", raised |-> FALSE, message |-> "", invoked |-> invoked]
Invalid(error, invoked) ==
    [valid |-> FALSE, error |-> error, raised |-> FALSE, message |-> "", invoked |-> invoked]
Escaped(message, invoked) ==
    [valid |-> FALSE, error |-> "", raised |-> TRUE, message |-> message, invoked |-> invoked]

\* UserValidator.__call__
UserValidator_call(v, arg) ==
    With(UserValidator_check(v, arg), LAMBDA c :
    IF c.raised THEN Invalid(c.message, <<>>)
    ELSE IF c.truthy THEN Valid(<<>>)
    ELSE Invalid(UserValidator_error_message(v, arg), <<>>))

\* Validator.__call__: (True, None) or (False, error_message(arg)).
Validator_call(v, arg) ==
    IF v.kind = "UserValidator" THEN UserValidator_call(v, arg)
    ELSE With(Validator_check(v, arg), LAMBDA c :
         IF c.raised THEN Escaped(c.message, c.invoked)
         ELSE IF c.truthy THEN Valid(c.invoked)
         ELSE Invalid(ErrorMessage(v, arg), c.invoked))

\* The integer a value of exact type int stands for.
IntOf(x) == Twice(x) \div 2

\* frozenset(values), in the order of first occurrence: of values that are
\* equal (1, True, 1.0) the first one is kept.
RECURSIVE Distinct(_)
Distinct(values) ==
    IF values = <<>> THEN <<>>
    ELSE LET front == Distinct(SubSeq(values, 1, Len(values) - 1))
             last == values[Len(values)]
         IN IF \E i \in 1..Len(front) : PyEq(front[i], last)
            THEN front ELSE Append(front, last)

\* The smallest / largest integer of a non-empty set.
MinOf(ints) == CHOOSE n \in ints : \A m \in ints : n <= m
MaxOf(ints) == CHOOSE n \in ints : \A m \in ints : m <= n

\* ValueValidator.simplify
ValueValidator_simplify(v) ==
    LET values == Distinct(v.values)
        ints == {IntOf(values[i]) : i \in {j \in 1..Len(values) : values[j].type = "int"}}
        differences == {b - a : <<a, b>> \in
                           {p \in ints \X ints :
                               p[1] < p[2] /\ ~\E m \in ints : p[1] < m /\ m < p[2]}}
    IN IF /\ Len(values) > 2
          /\ \A i \in 1..Len(values) : values[i].type = "int"
          /\ Cardinality(differences) = 1
       THEN RangeValidator(MinOf(ints), MaxOf(ints) + 1,
                           CHOOSE d \in differences : TRUE, TRUE)
       ELSE ValueValidator(values, v.match_types)

\* TypeValidator.simplify
TypeValidator_simplify(v) ==
    IF v.check_subclasses /\ "object" \in v.types THEN EmptyValidator ELSE v

\* simplify() of a validator that is not a ComposedValidator.
Member_simplify(v) ==
    CASE v.kind = "TypeValidator" -> TypeValidator_simplify(v)
      [] v.kind = "ValueValidator" -> ValueValidator_simplify(v)
      [] OTHER -> v

\* [v for v in validators if v is of one of the kinds]
RECURSIVE Filter(_, _, _)
Filter(validators, kinds, keep) ==
    IF validators = <<>> THEN <<>>
    ELSE (IF (validators[1].kind \in kinds) = keep THEN <<validators[1]>> ELSE <<>>)
         \o Filter(Tail(validators), kinds, keep)

\* The (check_subclasses, check_bool_subclasses) pairs in product order.
FlagPairs == <<<<FALSE, FALSE>>, <<FALSE, TRUE>>, <<TRUE, FALSE>>, <<TRUE, TRUE>>>>

\* The merge of the type validators, one per pair of flags in use.
RECURSIVE MergedTypes(_, _)
MergedTypes(type_validators, k) ==
    IF k > Len(FlagPairs) THEN <<>>
    ELSE LET params == FlagPairs[k]
             types == UNION {type_validators[i].types : i \in
                        {j \in 1..Len(type_validators) :
                            /\ type_validators[j].check_subclasses = params[1]
                            /\ type_validators[j].check_bool_subclasses = params[2]}}
         IN (IF types # {} THEN <<TypeValidator(types, params[1], params[2])>> ELSE <<>>)
            \o MergedTypes(type_validators, k + 1)

\* The values of the value validators with the given match_types, in order.
RECURSIVE ValuesOf(_, _)
ValuesOf(value_validators, match_types) ==
    IF value_validators = <<>> THEN <<>>
    ELSE (IF value_validators[1].match_types = match_types
          THEN value_validators[1].values ELSE <<>>)
         \o ValuesOf(Tail(value_validators), match_types)

\* The merge of the value validators: match_types False first, then True.
MergedValues(value_validators) ==
    LET loose == ValuesOf(value_validators, FALSE)
        strict == ValuesOf(value_validators, TRUE)
    IN (IF loose # <<>> THEN <<ValueValidator(loose, FALSE)>> ELSE <<>>)
       \o (IF strict # <<>> THEN <<ValueValidator(strict, TRUE)>> ELSE <<>>)

\* ComposedValidator.simplify
ComposedValidator_simplify(v) ==
    IF Len(v.validators) = 1 THEN Member_simplify(v.validators[1])
    ELSE LET validators == [i \in DOMAIN v.validators |-> Member_simplify(v.validators[i])]
             found_values == Filter(validators, {"ValueValidator"}, TRUE)
             found_types == Filter(validators, {"TypeValidator"}, TRUE)
             other_validators == Filter(validators, {"ValueValidator", "TypeValidator"}, FALSE)
             type_validators == IF Len(found_types) > 1
                                THEN MergedTypes(found_types, 1) ELSE found_types
             value_validators == IF Len(found_values) > 1
                                 THEN MergedValues(found_values) ELSE found_values
             result == value_validators \o type_validators \o other_validators
         IN IF \E i \in DOMAIN validators : validators[i].kind = "EmptyValidator"
            THEN EmptyValidator
            ELSE IF Len(result) = 1 THEN result[1] ELSE ComposedValidator(result)

\* Validator.simplify, dispatched on the validator's class.
Simplify(v) ==
    IF IsComposed(v) THEN ComposedValidator_simplify(v) ELSE Member_simplify(v)

\* Python's None.
None == [kind |-> "None"]

\* The objects given as specifications besides plain values: a class, a
\* dict (its keys, in order), a range, and a list/tuple/set (its items).
PyClass(name) == [kind |-> "class", name |-> name]
PyDict(keys) == [kind |-> "dict", items |-> keys]
PyRange(start, stop, step) == [kind |-> "range", start |-> start, stop |-> stop, step |-> step]
PyList(items) == [kind |-> "list", items |-> items]

\* The object is a plain value (an int, a str, an instance of a class, ...).
IsValue(obj) == "type" \in DOMAIN obj

ValidatorKinds ==
    {"TypeValidator", "ValueValidator", "EmptyValidator", "RangeValidator",
     "UserValidator", "ComposedValidator"}

\* The object is an instance of a Validator class.
IsValidatorObject(obj) == ~IsValue(obj) /\ obj.kind \in ValidatorKinds

\* from_spec's first test left out: a Validator is treated as any other object.
IsInstanceOfNothing(obj) == FALSE

\* isinstance(obj, Validator)
IsInstanceOfValidator(obj) == IsValidatorObject(obj)

\* isclass(obj)
IsClass(obj) == ~IsValue(obj) /\ obj.kind = "class"

\* callable(obj) for an object that is not a class: functions, and the
\* validators and the expressions, which define __call__.
IsCallable(obj) ==
    ~IsValue(obj) /\ (obj.kind = "function" \/ IsValidatorObject(obj) \/ IsOperation(obj))

\* utils.iterable(obj): strings, containers, ranges, ComposedValidators, and
\* the expressions, which iter() accepts because they define __getitem__.
IsIterable(obj) ==
    IF IsValue(obj) THEN obj.type = "str"
    ELSE obj.kind \in {"dict", "range", "list", "ComposedValidator"} \/ IsOperation(obj)

\* Validator.from_spec applied to a class object.
FromSpecClass(cls) == TypeValidator({cls}, TRUE, FALSE)

\* Validator.from_spec; containers are not empty.
RECURSIVE from_spec(_)
from_spec(obj) ==
    IF IsInstanceOfValidator(obj) THEN obj
    ELSE IF IsValue(obj) /\ obj.type = "object" THEN EmptyValidator
    ELSE IF IsClass(obj) THEN FromSpecClass(obj.name)
    ELSE IF ~IsValue(obj) /\ obj.kind = "dict" THEN ValueValidator(obj.items, TRUE)
    ELSE IF IsCallable(obj) THEN UserValidator(obj)
    ELSE IF ~IsValue(obj) /\ obj.kind = "range"
         THEN RangeValidator(obj.start, obj.stop, obj.step, TRUE)
    ELSE IF ~IsValue(obj) /\ obj.kind = "list"
         THEN IF \E i \in DOMAIN obj.items : IsClass(obj.items[i]) \/ IsIterable(obj.items[i])
              THEN ComposedValidator([i \in DOMAIN obj.items |-> from_spec(obj.items[i])])
              ELSE ValueValidator(obj.items, TRUE)
    ELSE ValueValidator(<<obj>>, TRUE)

\* from_spec returned its argument rather than a new object.
from_spec_returns_obj(obj) == IsInstanceOfValidator(obj)

---------------------------------------------------------------------------
(* Transforms of a parsing stage: the builtins str and int.  Apply gives   *)
(* the value returned, or the message of the exception raised.             *)

\* str(x)
BuiltinStr(x) == Returned(PyStr(x.repr))

\* int(x)
BuiltinInt(x) ==
    CASE x.type = "int" -> Returned(x)
      [] x.type = "bool" -> Returned(PyInt(IF x.repr = "True" THEN "1" ELSE "0"))
      [] x.type = "str" ->
            IF x.repr \in IntLiterals
            THEN Returned(PyInt(x.repr))
            ELSE Raised("invalid literal for int() with base 10: '" \o x.repr \o "'")
      [] OTHER -> Raised("int() argument must be a string or a number")

\* A callable given as an item of a parsing stage.
Callable(name) == [kind |-> "callable", name |-> name]

\* item(arg) for a transform item of a parsing stage: an expression, or a
\* callable known by its name (lambda arg: arg is named identity).
Apply(item, x) ==
    IF IsOperation(item) THEN Operation_call(item, x)
    ELSE CASE item.name = "str" -> BuiltinStr(x)
           [] item.name = "int" -> BuiltinInt(x)
           [] item.name = "identity" -> Returned(x)

---------------------------------------------------------------------------
(* exceptions.py.  level is the empty set for None and {k} for the        *)
(* integer k.                                                              *)

NoError == [kind |-> "none", param |-> 0, description |-> "", level |-> {}]

\* ParsingError.__init__ with the description dropped.
ParsingErrorNoDescription(param, description) ==
    [kind |-> "ParsingError", param |-> param, description |-> "", level |-> {}]

\* ParsingError.__init__
ParsingError(param, description) ==
    [kind |-> "ParsingError", param |-> param, description |-> description, level |-> {}]

\* ValidationError (subclass of ParsingError, same __init__)
ValidationError(param, description) ==
    [kind |-> "ValidationError", param |-> param, description |-> description, level |-> {}]

\* ValueError(), raised on an arity mismatch; not a ParsingError.
ValueError == [kind |-> "ValueError", param |-> 0, description |-> "", level |-> {}]

\* TypeError(), raised when something that is not a Processor is appended.
TypeError == [kind |-> "TypeError", param |-> 0, description |-> "", level |-> {}]

\* An exception raised by a user's function that nothing caught.
Exception(message) ==
    [kind |-> "Exception", param |-> 0, description |-> message, level |-> {}]

\* except Exception in the place of except ParsingError.
IsAnyError(e) == e.kind # "none"

\* isinstance(e, ParsingError)
IsParsingError(e) == e.kind \in {"ParsingError", "ValidationError"}

\* The level printed by __str__: ' (at level {})'.format(level+1)
ShownLevel(e) == {k + 1 : k \in e.level}

\* ParsingError.__str__ / ValidationError.__str__
ErrorStr(e) ==
    (IF e.kind = "ValidationError"
     THEN "Invalid argument at position "
     ELSE "Error parsing argument at position ")
    \o ToString(e.param + 1)
    \o (IF e.description # "" THEN ": " \o e.description ELSE "")
    \o (IF e.level # {}
        THEN " (at level " \o ToString(CHOOSE k \in ShownLevel(e) : TRUE) \o ")"
        ELSE "")

---------------------------------------------------------------------------
(* Processing stages.  A stage is a record with its class and its items   *)
(* (self.validators of a ValidateInput, self.items of a ParseInput).      *)

\* ValidateInput.__init__: every validator is simplified.
ValidateInput(items) ==
    [kind |-> "ValidateInput", items |-> [i \in DOMAIN items |-> Simplify(items[i])]]

\* ParseInput.__init__
ParseInput(items) == [kind |-> "ParseInput", items |-> items]

Min(a, b) == IF a < b THEN a ELSE b

\* validate's loop carrying on after a rejection: every validator that is not
\* skipped is invoked and the first rejection is reported.
RECURSIVE validate_from_no_abort(_, _, _)
validate_from_no_abort(validators, args, i) ==
    IF i > Min(Len(validators), Len(args))
    THEN [err |-> NoError, invoked |-> <<>>]
    ELSE With(validate_from_no_abort(validators, args, i + 1), LAMBDA rest :
         IF IsWrapper(args[i]) /\ ~args[i].validate
         THEN rest
         ELSE With(Validator_call(validators[i], args[i].wrapped_value), LAMBDA r :
              IF r.raised
              THEN [err |-> Exception(r.message), invoked |-> <<i - 1>>]
              ELSE [err |-> IF ~r.valid THEN ValidationError(i - 1, r.error) ELSE rest.err,
                    invoked |-> <<i - 1>> \o rest.invoked]))

\* ValidateInput.validate, from the 1-based position i on.  invoked lists
\* the 0-based positions whose validator was called, in call order.
RECURSIVE validate_from(_, _, _)
validate_from(validators, args, i) ==
    IF i > Min(Len(validators), Len(args))
    THEN [err |-> NoError, invoked |-> <<>>]
    ELSE LET arg == args[i] IN
         IF IsWrapper(arg) /\ ~arg.validate
         THEN validate_from(validators, args, i + 1)
         ELSE With(Validator_call(validators[i], arg.wrapped_value), LAMBDA r :
              IF r.raised
              THEN [err |-> Exception(r.message), invoked |-> <<i - 1>>]
              ELSE IF ~r.valid
              THEN [err |-> ValidationError(i - 1, r.error), invoked |-> <<i - 1>>]
              ELSE With(validate_from(validators, args, i + 1), LAMBDA rest :
                   [err |-> rest.err, invoked |-> <<i - 1>> \o rest.invoked]))

\* validate numbering only the arguments it checks: a skipped argument does
\* not count toward the reported index.
validate_counting_checked(validators, args) ==
    With(validate_from(validators, args, 1), LAMBDA r :
    IF r.err = NoError THEN r
    ELSE [r EXCEPT !.err = ValidationError(Len(r.invoked) - 1, r.err.description)])

\* ValidateInput.validate
validate(validators, args) == validate_from(validators, args, 1)

\* ParseInput.parse's loop, from the 1-based position i on.
RECURSIVE parse_from(_, _, _)
parse_from(items, args, i) ==
    IF i > Min(Len(items), Len(args))
    THEN [err |-> NoError, result |-> <<>>, invoked |-> <<>>]
    ELSE LET arg == args[i] IN
         IF IsWrapper(arg) /\ ~arg.parse
         THEN With(parse_from(items, args, i + 1), LAMBDA rest :
              [err |-> rest.err, result |-> <<arg>> \o rest.result,
               invoked |-> rest.invoked])
         ELSE With(Apply(items[i], arg.wrapped_value), LAMBDA r :
              IF r.raised
              THEN [err |-> ParsingError(i - 1, r.message), result |-> <<>>,
                    invoked |-> <<i - 1>>]
              ELSE With(parse_from(items, args, i + 1), LAMBDA rest :
                   [err |-> rest.err, result |-> <<Bare(r.value)>> \o rest.result,
                    invoked |-> <<i - 1>> \o rest.invoked]))

\* parse transforming every argument, whatever its parse flag.
parse_ignoring_flag(items, args) ==
    IF Len(items) # Len(args)
    THEN [err |-> ValueError, result |-> <<>>, invoked |-> <<>>]
    ELSE parse_from(items, [i \in DOMAIN args |-> Bare(args[i].wrapped_value)], 1)

\* ParseInput.parse
parse(items, args) ==
    IF Len(items) # Len(args)
    THEN [err |-> ValueError, result |-> <<>>, invoked |-> <<>>]
    ELSE parse_from(items, args, 1)

\* ValidateInput.process_input returning the unwrapped values.
ValidateInput_process_input_unwrapping(p, args) ==
    IF Len(p.items) # Len(args)
    THEN [err |-> ValueError, result |-> <<>>, invoked |-> <<>>]
    ELSE With(validate(p.items, args), LAMBDA r :
         [err |-> r.err,
          result |-> [i \in DOMAIN args |-> Bare(args[i].wrapped_value)],
          invoked |-> r.invoked])

\* ValidateInput.process_input
ValidateInput_process_input(p, args) ==
    IF Len(p.items) # Len(args)
    THEN [err |-> ValueError, result |-> <<>>, invoked |-> <<>>]
    ELSE With(validate(p.items, args), LAMBDA r :
         [err |-> r.err, result |-> args, invoked |-> r.invoked])

\* Anything passes for a Processor.
IsAnything(x) == TRUE

\* isinstance(processor, Processor)
IsProcessor(x) == ~IsValue(x) /\ x.kind \in {"ValidateInput", "ParseInput"}

\* ProcessorBundle.append / __iadd__: the exception raised and the list
\* self.processors afterwards.
ProcessorBundle_append(ps, x) ==
    IF ~IsProcessor(x)
    THEN [err |-> TypeError, processors |-> ps]
    ELSE [err |-> NoError, processors |-> Append(ps, x)]

\* processor.process_input(*args), dispatched on the stage's class.
Processor_process_input(p, args) ==
    CASE p.kind = "ValidateInput" -> ValidateInput_process_input(p, args)
      [] p.kind = "ParseInput" -> parse(p.items, args)

---------------------------------------------------------------------------
(* decorators.py: the decorators validate and parse, given positional     *)
(* arguments only and applied to a function of Arity positional            *)
(* parameters.                                                             *)

\* Python's Ellipsis, and the class Placeholder local to Decorator.__call__.
Ellipsis == [kind |-> "Ellipsis"]
Placeholder == PyClass("Placeholder")

\* bool(a == b) for two objects given to a decorator: Operation.__eq__ builds
\* a new expression, an object that is true; other objects are equal when
\* they are the same object.
EqualsIsTrue(a, b) == IF IsOperation(a) \/ IsOperation(b) THEN TRUE ELSE a = b

\* bool(a != b): Operation.__ne__ builds a new expression too.
NotEqualsIsTrue(a, b) == IF IsOperation(a) \/ IsOperation(b) THEN TRUE ELSE a # b

\* x in args, args.count(x) and args.index(x), which compare with ==.
Contains(as, x) == \E i \in DOMAIN as : EqualsIsTrue(as[i], x)
CountOf(as, x) == Cardinality({i \in DOMAIN as : EqualsIsTrue(as[i], x)})
IndexOf(as, x) ==
    CHOOSE i \in DOMAIN as :
        EqualsIsTrue(as[i], x) /\ \A j \in 1..(i - 1) : ~EqualsIsTrue(as[j], x)

\* parse_ellipsis, for a function of m positional parameters.
parse_ellipsis(as, m) ==
    IF ~Contains(as, Ellipsis) THEN Returned(as)
    ELSE IF Len(as) = 1 THEN Returned(<<>>)
    ELSE IF CountOf(as, Ellipsis) > 1
    THEN Raised("Ellipsis cannot be specified more than one time")
    ELSE LET k == IndexOf(as, Ellipsis)
             a == SubSeq(as, 1, k - 1)
             b == SubSeq(as, k + 1, Len(as))
             n == Len(as) - 1
         IN  IF b = <<>> THEN Returned(a)
             ELSE IF n > m THEN Returned(as)
             ELSE Returned(a \o [i \in 1..(m - n) |-> Placeholder] \o b)

\* merge_args: the positional arguments A merged with the keyword arguments
\* B, each bound to the signature with Placeholder as every default.
merge_args(A, B) ==
    LET one(a, b) ==
            IF IsOperation(a) THEN TRUE
            ELSE EqualsIsTrue(a, Placeholder) # EqualsIsTrue(b, Placeholder)
        both(a, b) == EqualsIsTrue(a, Placeholder) /\ EqualsIsTrue(b, Placeholder)
    IN  IF \E i \in DOMAIN A : ~one(A[i], B[i]) /\ ~both(A[i], B[i])
        THEN Raised("multiple values for argument")
        ELSE Returned([i \in DOMAIN A |->
                         IF one(A[i], B[i])
                         THEN (IF NotEqualsIsTrue(A[i], Placeholder) THEN A[i] ELSE B[i])
                         ELSE Placeholder])

\* Decorator.empty_arg of ValidateInputDecorator and of ParseInputDecorator.
empty_arg(class) == IF class = "validate" THEN PyClass("object") ELSE None

\* create_processor of ValidateInputDecorator and of ParseInputDecorator.
create_processor(class, as) ==
    IF class = "validate"
    THEN ValidateInput([i \in DOMAIN as |-> from_spec(as[i])])
    ELSE ParseInput([i \in DOMAIN as |-> IF as[i] # None THEN as[i] ELSE Callable("identity")])

\* Decorator.__call__: the exception raised, or the stage appended to the
\* wrapper of the decorated function.
Decorator_call(class, as) ==
    LET p == parse_ellipsis(as, Arity) IN
    IF p.raised THEN [err |-> ValueError, processor |-> None]
    ELSE IF Len(p.value) > Arity THEN [err |-> TypeError, processor |-> None]
    ELSE LET bounded == [i \in 1..Arity |-> IF i <= Len(p.value) THEN p.value[i] ELSE Placeholder]
             merged == merge_args(bounded, [i \in 1..Arity |-> Placeholder])
         IN  IF merged.raised THEN [err |-> TypeError, processor |-> None]
             ELSE [err |-> NoError,
                   processor |->
                     create_processor(class,
                       [i \in 1..Arity |->
                          IF NotEqualsIsTrue(merged.value[i], Placeholder)
                          THEN merged.value[i] ELSE empty_arg(class)])]

\* FuncWrapper.process_input's last line: unwrap every InputValueWrapper.
Unwrapped(as) == [i \in DOMAIN as |-> as[i].wrapped_value]

\* FuncWrapper.__call__ of a wrapper that holds the one stage p, every
\* argument being given by the caller: the exception raised, or the
\* arguments the wrapped function is called with.
FuncWrapper_call(p, as) ==
    With(Processor_process_input(p, [i \in DOMAIN as |-> Bare(as[i])]), LAMBDA r :
    [err |-> r.err, result |-> IF r.err = NoError THEN Unwrapped(r.result) ELSE <<>>])

---------------------------------------------------------------------------
(* The values, wrappers and stages the model draws its inputs from.       *)

I1 == PyInt("1")
Sx == PyStr("x")

\* The arguments a caller may pass at one position.
InputSet ==
    {Bare(I1), Bare(Sx),
     InputValueWrapper(I1, FALSE, TRUE),
     InputValueWrapper(Sx, TRUE, FALSE)}

\* The validators and transforms a stage may be built from.
ValidatorSet == {FromSpecClass("int"), FromSpecClass("str")}
TransformSet == {Callable("str"), Callable("int")}

\* An item list of n items: a at the first position, b at the others.
ItemsOf(a, b, n) == [i \in 1..n |-> IF i = 1 THEN a ELSE b]

\* The stages that may be appended: stages of the function's arity, and one
\* stage of each class built with one item too few.
StageSet ==
    {ValidateInput(ItemsOf(a, b, Arity)) : a \in ValidatorSet, b \in ValidatorSet}
    \cup {ParseInput(ItemsOf(a, b, Arity)) : a \in TransformSet, b \in TransformSet}
    \cup {ValidateInput(ItemsOf(FromSpecClass("int"), FromSpecClass("int"), Arity - 1)),
          ParseInput(ItemsOf(Callable("str"), Callable("str"), Arity - 1))}

\* Objects that are not stages: a validator, a list of validators, a value.
NonProcessorSet ==
    {FromSpecClass("int"), PyList(<<FromSpecClass("int"), FromSpecClass("int")>>), I1}

\* The default value of the wrapped function's parameter at 1-based
\* position i: def f(a=1, b='x', c=1, ...).
ParamDefault(i) == IF i % 2 = 1 THEN I1 ELSE Sx

---------------------------------------------------------------------------
(* State.                                                                  *)

VARIABLES
    processors,  \* ProcessorBundle.processors, in insertion order
    pc,          \* "idle", "running" (inside process_input), "raised", "called"
    given,       \* the 1-based positions the caller supplied in the current call
    bound,       \* bounded_args.args: the arguments handed to process_input
    args,        \* the local variable args of ProcessorBundle.process_input
    done,        \* number of stages the loop of process_input has completed
    err,         \* the exception that escaped process_input, or NoError
    ran,         \* insertion indexes of the stages run in this call, in run order
    calls,       \* the validators and transforms invoked in this call, in order
    received,    \* the arguments the wrapped function was called with
    offered,     \* the object whose append raised, or None
    spec,        \* the object last given to Validator.from_spec, or None
    validator,   \* the validator under test, or None
    same,        \* the last from_spec returned the object it was given
    simplified,  \* the validator under test is what simplify() returned
    tested,      \* the value last given to the validator, or None
    outcome,     \* what validator(tested) did, or None
    position,    \* the 1-based position of the validator in the stage last run, or 0
    stage_err,   \* the exception that escaped that stage, or NoError
    expression,  \* the expression last built from the placeholder, or None
    operand,     \* the value the expression was last called with, or None
    value,       \* what expression(operand) did, or None
    decorator,   \* the decorator last applied: its class and its arguments, or None
    built,       \* what applying it did: the exception or the stage appended, or None
    sent,        \* the arguments of the last call of the decorated function
    got,         \* what that call did before the function's body ran, or None
    composed,    \* the ComposedValidator under test: its list self.validators, or None
    frames,      \* the loops of extend that are running on it, innermost last
    op,          \* the operation last begun on it: its name and argument, or None
    before,      \* self.validators when that operation began
    raised,      \* the exception that ended that operation, or NoError
    bundle,      \* the processors of the ProcessorBundle with process_output
    direction,   \* "input" or "output": the method last called on it, or "none"
    visited,     \* insertion indexes of the stages that call ran, in run order
    failed,      \* the exception that escaped that call, or NoError
    produced     \* the values that call returned, or <<>>

callvars == <<given, bound, args, done, err, ran, calls, received>>

\* The variables of the pipeline and those of the validator under test.
pipevars == <<processors, pc, offered, callvars>>
testvars == <<tested, outcome, position, stage_err>>
valvars == <<spec, validator, same, simplified, testvars>>


\* The variables of the expression under test and of the decorated function.
exprvars == <<expression, operand, value>>
decovars == <<decorator, built, sent, got>>


\* The variables of the ComposedValidator and of the ProcessorBundle under
\* test.
compvars == <<composed, frames, op, before, raised>>
outvars == <<bundle, direction, visited, failed, produced>>
objvars == <<compvars, outvars>>

vars == <<pipevars, valvars, exprvars, decovars, objvars>>

\* The default wrapped with the validate flag left at True.
SignatureDefaultValidated(i) == InputValueWrapper(ParamDefault(i), TRUE, FALSE)

\* FuncWrapper.__init__: every default of the signature is replaced by an
\* InputValueWrapper with validate=False and parse=False.
SignatureDefault(i) == InputValueWrapper(ParamDefault(i), FALSE, FALSE)

\* The stages visited in insertion order.
InsertionOrder(n, k) == k + 1

\* reversed(self.processors): the insertion index of the stage the loop
\* visits after it has completed k stages, in a pipeline of n stages.
Reversed(n, k) == n - k

\* The level counted from 1.
CountFromOne(k) == k + 1

\* zip(count(start=0), ...): the loop's level when it has completed k stages.
Count(k) == k

\* The level set whenever the pipeline holds a stage.
LevelIsSetAlways(n) == n > 0

\* len(self.processors) > 1
LevelIsSet(n) == n > 1

\* The entries the run of stage s adds to the log of invocations.
Logged(s, kind, invoked) ==
    [j \in 1..Len(invoked) |-> [stage |-> s, kind |-> kind, param |-> invoked[j]]]

Init ==
    /\ processors = <<>>
    /\ pc = "idle"
    /\ given = {}
    /\ bound = <<>>
    /\ args = <<>>
    /\ done = 0
    /\ err = NoError
    /\ ran = <<>>
    /\ calls = <<>>
    /\ received = <<>>
    /\ offered = None
    /\ spec = None
    /\ validator = None
    /\ same = FALSE
    /\ simplified = FALSE
    /\ tested = None
    /\ outcome = None
    /\ position = 0
    /\ stage_err = NoError
    /\ expression = None
    /\ operand = None
    /\ value = None
    /\ decorator = None
    /\ built = None
    /\ sent = <<>>
    /\ got = None
    /\ composed = None
    /\ frames = <<>>
    /\ op = None
    /\ before = <<>>
    /\ raised = NoError
    /\ bundle = <<>>
    /\ direction = "none"
    /\ visited = <<>>
    /\ failed = NoError
    /\ produced = <<>>

\* ProcessorBundle.append / __iadd__ with any object: a Processor is added,
\* anything else raises TypeError.
AppendProcessor ==
    /\ pc = "idle"
    /\ Len(processors) < MaxStages
    /\ \E x \in StageSet \cup NonProcessorSet :
          LET r == ProcessorBundle_append(processors, x) IN
          /\ processors' = r.processors
          /\ IF r.err = NoError
             THEN UNCHANGED <<pc, offered, err>>
             ELSE /\ pc' = "rejected"
                  /\ offered' = x
                  /\ err' = r.err
    /\ UNCHANGED <<given, bound, args, done, ran, calls, received>>
    /\ UNCHANGED <<valvars, exprvars, decovars, objvars>>

\* FuncWrapper.__call__ up to the call of process_input: the arguments are
\* bound to the signature and the defaults applied.
Call ==
    /\ pc = "idle"
    /\ \E g \in SUBSET (1..Arity), a \in [1..Arity -> InputSet] :
          /\ given' = g
          /\ bound' = [i \in 1..Arity |-> IF i \in g THEN a[i] ELSE SignatureDefault(i)]
    /\ args' = bound'
    /\ done' = 0
    /\ err' = NoError
    /\ ran' = <<>>
    /\ calls' = <<>>
    /\ received' = <<>>
    /\ pc' = "running"
    /\ UNCHANGED <<processors, offered>>
    /\ UNCHANGED <<valvars, exprvars, decovars, objvars>>

\* One iteration of the loop of ProcessorBundle.process_input.
RunStage ==
    /\ pc = "running"
    /\ done < Len(processors)
    /\ LET n == Len(processors)
           s == Reversed(n, done)
           processor == processors[s]
           r == Processor_process_input(processor, args)
           kind == IF processor.kind = "ValidateInput" THEN "validate" ELSE "parse"
       IN /\ ran' = Append(ran, s)
          /\ calls' = calls \o Logged(s, kind, r.invoked)
          /\ IF r.err = NoError
             THEN /\ args' = r.result
                  /\ done' = done + 1
                  /\ UNCHANGED <<err, pc>>
             ELSE /\ err' = IF IsParsingError(r.err) /\ LevelIsSet(n)
                            THEN [r.err EXCEPT !.level = {Count(done)}]
                            ELSE r.err
                  /\ pc' = "raised"
                  /\ UNCHANGED <<args, done>>
    /\ UNCHANGED <<processors, given, bound, received, offered>>
    /\ UNCHANGED <<valvars, exprvars, decovars, objvars>>

\* The loop is exhausted: process_input returns, FuncWrapper.process_input
\* unwraps the values and __call__ calls the wrapped function with them.
CallWrapped ==
    /\ pc = "running"
    /\ done = Len(processors)
    /\ received' = Unwrapped(args)
    /\ pc' = "called"
    /\ UNCHANGED <<processors, given, bound, args, done, err, ran, calls, offered>>
    /\ UNCHANGED <<valvars, exprvars, decovars, objvars>>

\* The call is over (it returned or its exception reached the caller).
Return ==
    /\ pc \in {"raised", "called", "rejected"}
    /\ pc' = "idle"
    /\ offered' = None
    /\ given' = {}
    /\ bound' = <<>>
    /\ args' = <<>>
    /\ done' = 0
    /\ err' = NoError
    /\ ran' = <<>>
    /\ calls' = <<>>
    /\ received' = <<>>
    /\ UNCHANGED processors
    /\ UNCHANGED <<valvars, exprvars, decovars, objvars>>

Next == AppendProcessor \/ Call \/ RunStage \/ CallWrapped \/ Return

Spec == Init /\ [][Next]_vars

---------------------------------------------------------------------------
(* The validators on their own: an object is resolved by from_spec, the    *)
(* validator may be simplified, and it is called on a value or run at one  *)
(* position of a validating stage.                                         *)

\* The values a validator is tested on.  Baz is a subclass of Qux.
ValueSet ==
    {PyIntN(n) : n \in (0 - 1)..MaxInt}
    \cup {PyTrue, PyFalse, PyFloatHalves(2), PyFloatHalves(18), PyFloatHalves(19),
          Sx, PyStr("r"), PyObject("Qux"), PyObject("Baz"), PyObject("object")}

\* Validators built by their constructors.
BuiltValidatorSet ==
    {TypeValidator({"int"}, cs, cb) : cs \in BOOLEAN, cb \in BOOLEAN}
    \cup {TypeValidator({"Qux"}, cs, FALSE) : cs \in BOOLEAN}
    \cup {TypeValidator({"str", "float", "int"}, TRUE, FALSE)}
    \cup {ValueValidator(<<PyIntN(1), Sx>>, mt) : mt \in BOOLEAN}
    \cup {ValueValidator(<<PyTrue, PyFloatHalves(18)>>, mt) : mt \in BOOLEAN}
    \cup {ValueValidator(<<PyIntN(1), PyTrue, PyFloatHalves(2)>>, mt) : mt \in BOOLEAN}
    \cup {ValueValidator(<<PyIntN(1), PyIntN(2), PyIntN(3)>>, FALSE)}
    \cup {RangeValidator(0, MaxInt, 1, mt) : mt \in BOOLEAN}
    \cup {RangeValidator(MaxInt, 0, 0 - 3, mt) : mt \in BOOLEAN}
    \cup {ComposedValidator(<<UserValidator(PyFunction(f))>>) : f \in UserFunctions}
    \cup {ComposedValidator(<<UserValidator(PyFunction("falsy")),
                              UserValidator(PyFunction(f))>>) : f \in UserFunctions}
    \cup {ComposedValidator(<<UserValidator(PyFunction("falsy")),
                              UserValidator(PyFunction("truthy")),
                              UserValidator(PyFunction("boom"))>>),
          ComposedValidator(<<TypeValidator({"str"}, TRUE, FALSE),
                              UserValidator(PyFunction("boom")),
                              ValueValidator(<<PyIntN(1)>>, TRUE)>>)}

\* The objects given to from_spec.
SpecSet ==
    BuiltValidatorSet
    \cup {PyClass(c) : c \in {"object", "int", "str", "Qux"}}
    \cup {PyFunction(f) : f \in UserFunctions}
    \cup {PyObject("object"), PyIntN(1), Sx,
          PyDict(<<PyIntN(1), Sx>>),
          PyRange(0, MaxInt, 1), PyRange(1, MaxInt, 2),
          PyList(<<PyIntN(1), PyIntN(4), PyIntN(9)>>),
          PyList(<<PyIntN(1), PyIntN(2), PyIntN(3)>>),
          PyList(<<PyStr("r"), Sx>>),
          PyList(<<PyClass("int"), PyIntN(1)>>),
          PyList(<<PyClass("object"), PyClass("str")>>),
          PyList(<<PyClass("str"), PyFunction("boom")>>)}

\* validate(...): Validator.from_spec(s) for an object s.
Resolve ==
    /\ \E s \in SpecSet :
          /\ spec' = s
          /\ validator' = from_spec(s)
          /\ same' = from_spec_returns_obj(s)
    /\ simplified' = FALSE
    /\ tested' = None
    /\ outcome' = None
    /\ position' = 0
    /\ stage_err' = NoError
    /\ UNCHANGED <<pipevars, exprvars, decovars, objvars>>

\* Validator.from_spec applied to the validator a from_spec returned.
ResolveAgain ==
    /\ validator # None
    /\ spec' = validator
    /\ validator' = from_spec(validator)
    /\ same' = from_spec_returns_obj(validator)
    /\ simplified' = FALSE
    /\ tested' = None
    /\ outcome' = None
    /\ position' = 0
    /\ stage_err' = NoError
    /\ UNCHANGED <<pipevars, exprvars, decovars, objvars>>

\* validator.simplify()
SimplifyValidator ==
    /\ validator # None
    /\ validator' = Simplify(validator)
    /\ simplified' = TRUE
    /\ tested' = None
    /\ outcome' = None
    /\ position' = 0
    /\ stage_err' = NoError
    /\ UNCHANGED <<spec, same>>
    /\ UNCHANGED <<pipevars, exprvars, decovars, objvars>>

\* validator(x) for a value x.
CallValidator ==
    /\ validator # None
    /\ \E x \in ValueSet :
          /\ tested' = x
          /\ outcome' = Validator_call(validator, x)
    /\ position' = 0
    /\ stage_err' = NoError
    /\ UNCHANGED <<spec, validator, same, simplified>>
    /\ UNCHANGED <<pipevars, exprvars, decovars, objvars>>

\* The items of a validating stage with v at position i and from_spec(object())
\* at the other positions.
StageItems(v, i) == [j \in 1..Arity |-> IF j = i THEN v ELSE EmptyValidator]

\* ValidateInput(items).process_input(*args) with the validator at position
\* i and the value x given at that position.
RunValidateInput ==
    /\ validator # None
    /\ \E i \in 1..Arity, x \in ValueSet :
          LET p == ValidateInput(StageItems(validator, i))
              r == ValidateInput_process_input(p, [j \in 1..Arity |-> Bare(IF j = i THEN x ELSE I1)])
          IN /\ tested' = x
             /\ position' = i
             /\ outcome' = Validator_call(p.items[i], x)
             /\ stage_err' = r.err
    /\ UNCHANGED <<spec, validator, same, simplified>>
    /\ UNCHANGED <<pipevars, exprvars, decovars, objvars>>

NextValidator ==
    Resolve \/ ResolveAgain \/ SimplifyValidator \/ CallValidator \/ RunValidateInput

SpecValidator == Init /\ [][NextValidator]_vars

---------------------------------------------------------------------------
(* The combined predicates.  The operators &, ^ and ~ of the validators    *)
(* and the validators Int, Float and Str are used by the tests and are not *)
(* part of validators.py; they are taken from the specification's          *)
(* CombinedPredicate: Conjunction, Negation, and Xor derived as            *)
(* (A and not B) or (not A and B).                                         *)

\* Int, Float and Str of the tests: the validators of one type each.
IntValidator == FromSpecClass("int")
FloatValidator == FromSpecClass("float")
StrValidator == FromSpecClass("str")

CombinedKinds == {"Disjunction", "Conjunction", "Negation"}

Disjunction(members) == [kind |-> "Disjunction", members |-> members]
Conjunction(members) == [kind |-> "Conjunction", members |-> members]
Negation(inner) == [kind |-> "Negation", inner |-> inner]

\* An operand of &, ^ and ~: a combined predicate is a validator and is
\* taken as it is, any other object is resolved by from_spec.
Resolved(A) ==
    IF ~IsValue(A) /\ A.kind \in CombinedKinds THEN A ELSE from_spec(A)

\* A & B, A ^ B and ~A on validators.
Validator_and(A, B) == Conjunction(<<Resolved(A), Resolved(B)>>)
Validator_invert(A) == Negation(Resolved(A))
Validator_xor(A, B) ==
    Disjunction(<<Conjunction(<<Resolved(A), Negation(Resolved(B))>>),
                  Conjunction(<<Negation(Resolved(A)), Resolved(B)>>)>>)

\* test(v): a member that is a validator is called, an error raised by a
\* user function counting as invalid; Disjunction and Conjunction go
\* through their members left to right.
RECURSIVE Predicate_test(_, _)
Predicate_test(p, v) ==
    CASE p.kind = "Disjunction" ->
            \E i \in DOMAIN p.members : Predicate_test(p.members[i], v)
      [] p.kind = "Conjunction" ->
            \A i \in DOMAIN p.members : Predicate_test(p.members[i], v)
      [] p.kind = "Negation" -> ~Predicate_test(p.inner, v)
      [] OTHER -> With(Validator_call(p, v), LAMBDA c : ~c.raised /\ c.valid)

\* The error of a combined predicate that rejects a value.
Predicate_error(p) ==
    IF p.kind = "Negation" THEN "must not satisfy inner predicate" ELSE ""

\* p(v) for a combined predicate.
Predicate_call(p, v) ==
    IF Predicate_test(p, v) THEN Valid(<<>>) ELSE Invalid(Predicate_error(p), <<>>)

---------------------------------------------------------------------------
(* The expressions on their own: an expression is built from the           *)
(* placeholder and called on a value, given to from_spec and called as a   *)
(* validator, or given to a decorator whose function is then called.       *)

\* The expressions built: every operator with a literal, and nested ones.
ExprSet ==
    {placeholder,
     Operation_binary("__add__", placeholder, PyIntN(2)),
     Operation_binary("__sub__", placeholder, PyIntN(2)),
     Operation_binary("__mul__", placeholder, PyIntN(2)),
     Operation_binary("__truediv__", placeholder, PyIntN(2)),
     Operation_binary("__floordiv__", placeholder, PyIntN(2)),
     Operation_binary("__mod__", placeholder, PyIntN(2)),
     Operation_binary("__pow__", placeholder, PyIntN(2)),
     Operation_unary("__neg__", placeholder),
     Operation_unary("__pos__", placeholder),
     Operation_unary("__abs__", placeholder),
     Operation_binary("__floordiv__", placeholder, PyIntN(0)),
     Operation_binary("__truediv__", placeholder, PyIntN(0)),
     Operation_binary("__mod__", placeholder, PyIntN(0)),
     Operation_binary("__or__", placeholder, PyIntN(4)),
     Operation_binary("__and__", placeholder, PyIntN(5)),
     Operation_binary("__xor__", placeholder, PyIntN(5)),
     Operation_unary("__invert__", placeholder),
     Operation_binary("__lshift__", placeholder, PyIntN(2)),
     Operation_binary("__rshift__", placeholder, PyIntN(2)),
     Operation_binary("__gt__", placeholder, PyIntN(0)),
     Operation_binary("__ge__", placeholder, PyIntN(0)),
     Operation_binary("__eq__", placeholder, PyIntN(0)),
     Operation_binary("__lt__", placeholder, PyIntN(0)),
     Operation_binary("__le__", placeholder, PyIntN(0)),
     Operation_binary("__ne__", placeholder, PyIntN(0)),
     Operation_binary("__lt__", placeholder, PyIntN(10)),
     Operation_binary("__eq__", placeholder, PyStr("a")),
     Operation_binary("__add__", Operation_binary("__mul__", placeholder, PyIntN(2)), PyIntN(1)),
     Operation_binary("__pow__", Operation_binary("__add__", placeholder, PyIntN(1)), PyIntN(2)),
     Operation_binary("__and__", Operation_binary("__ge__", placeholder, PyIntN(0)), Operation_binary("__lt__", placeholder, PyIntN(10))),
     Operation_binary("__eq__", Operation_binary("__mod__", Operation_binary("__pow__", placeholder, PyIntN(2)), PyIntN(2)), PyIntN(0)),
     Operation_binary("__xor__", Operation_binary("__gt__", placeholder, PyIntN(0)), Operation_binary("__lt__", placeholder, PyIntN(5))),
     Operation_unary("__invert__", Operation_binary("__gt__", placeholder, PyIntN(0))),
     Operation_binary("__xor__", placeholder, Operation_binary("__add__", placeholder, PyIntN(1))),
     Operation_binary("__xor__", placeholder, PyIntN(2)),
     Operation_binary("__sub__", placeholder, placeholder),
     Operation_binary("__add__", Operation_binary("__floordiv__", placeholder, PyIntN(0)), Operation_binary("__add__", placeholder, PyStr("a"))),
     Operation_unary("__abs__", Operation_binary("__sub__", placeholder, PyIntN(3))),
     Operation_binary("__and__", Operation_binary("__gt__", placeholder, PyIntN(0)), Operation_binary("__floordiv__", placeholder, PyIntN(0))),
     Operation_binary("__matmul__", placeholder, PyIntN(2)),
     Operation_binary("__lshift__", placeholder, PyIntN(0 - 1)),
     Operation_binary("__floordiv__", placeholder, PyIntN(0 - 2))}

\* The values an expression is called with.
ExprInputSet ==
    {PyIntN(n) : n \in (0 - 3)..MaxInt}
    \cup {PyIntN(MaxInt + 5), PyTrue, PyFalse,
          PyFloatHalves(2), PyFloatHalves(0 - 2), PyFloatHalves(4), PyStr("a")}

\* A part of the model is put back as it initially was.
ForgetValidator ==
    /\ spec' = None
    /\ validator' = None
    /\ same' = FALSE
    /\ simplified' = FALSE
    /\ tested' = None
    /\ outcome' = None
    /\ position' = 0
    /\ stage_err' = NoError

ForgetExpression ==
    /\ expression' = None
    /\ operand' = None
    /\ value' = None

ForgetDecorator ==
    /\ decorator' = None
    /\ built' = None
    /\ sent' = <<>>
    /\ got' = None

\* e = arg op k ... for an e of ExprSet.
BuildExpression ==
    /\ \E e \in ExprSet : expression' = e
    /\ operand' = None
    /\ value' = None
    /\ ForgetValidator
    /\ ForgetDecorator
    /\ UNCHANGED <<pipevars, objvars>>

\* e(x)
Evaluate ==
    /\ expression # None
    /\ \E x \in ExprInputSet :
          /\ operand' = x
          /\ value' = Operation_call(expression, x)
    /\ ForgetValidator
    /\ UNCHANGED <<expression, pipevars, decovars, objvars>>

\* Validator.from_spec(e) for the expression built.
ResolveExpression ==
    /\ expression # None
    /\ spec' = expression
    /\ validator' = from_spec(expression)
    /\ same' = from_spec_returns_obj(expression)
    /\ simplified' = FALSE
    /\ tested' = None
    /\ outcome' = None
    /\ position' = 0
    /\ stage_err' = NoError
    /\ operand' = None
    /\ value' = None
    /\ UNCHANGED <<expression, pipevars, decovars, objvars>>

\* validator(x) for the validator made from an expression.
CallPredicate ==
    /\ validator.kind \in ValidatorKinds
    /\ \E x \in ExprInputSet :
          /\ tested' = x
          /\ outcome' = Validator_call(validator, x)
    /\ position' = 0
    /\ stage_err' = NoError
    /\ UNCHANGED <<spec, validator, same, simplified>>
    /\ UNCHANGED <<pipevars, exprvars, decovars, objvars>>

\* The objects given to a decorator, and the values the decorated function
\* is called with.
DecoratorArgSet ==
    {Operation_binary("__gt__", placeholder, PyIntN(0)),
     Operation_binary("__pow__", Operation_binary("__add__", placeholder, PyIntN(1)), PyIntN(2)),
     PyClass("int"), Ellipsis}
DecoratorInputSet == {PyIntN(0), PyIntN(1), PyIntN(2), PyFloatHalves(0 - 2)}

\* @validate(...) or @parse(...) put on a function.
Decorate ==
    /\ \E class \in {"validate", "parse"}, n \in 1..Arity :
          \E as \in [1..n -> DecoratorArgSet] :
             /\ class = "parse" => \A i \in 1..n : ~IsClass(as[i])
             /\ decorator' = [class |-> class, args |-> as]
             /\ built' = Decorator_call(class, as)
    /\ sent' = <<>>
    /\ got' = None
    /\ ForgetValidator
    /\ ForgetExpression
    /\ UNCHANGED <<pipevars, objvars>>

\* The decorated function called with Arity arguments.
CallDecorated ==
    /\ built # None
    /\ built.err = NoError
    /\ \E as \in [1..Arity -> DecoratorInputSet] :
          /\ sent' = as
          /\ got' = FuncWrapper_call(built.processor, as)
    /\ UNCHANGED <<decorator, built>>
    /\ UNCHANGED <<pipevars, valvars, exprvars, objvars>>

\* The operands of the combined predicates, and the predicates combined.
OperandSet ==
    {IntValidator, FloatValidator, StrValidator,
     Operation_binary("__gt__", placeholder, PyIntN(0)),
     Operation_binary("__lt__", placeholder, PyIntN(0)),
     Operation_binary("__floordiv__", placeholder, PyIntN(0))}
CombinedSet ==
    {[op |-> "__xor__",
      a |-> Validator_and(IntValidator, Operation_binary("__gt__", placeholder, PyIntN(0))),
      b |-> Validator_and(FloatValidator, Operation_binary("__lt__", placeholder, PyIntN(0)))]}
    \cup {[op |-> "__xor__", a |-> UserValidator(A), b |-> B] :
             A \in {e \in OperandSet : IsOperation(e)}, B \in OperandSet}
    \cup {[op |-> "__xor__", a |-> A, b |-> B] :
             A \in {IntValidator, FloatValidator}, B \in OperandSet}
    \cup {[op |-> "__invert__", a |-> A, b |-> None] :
             A \in {IntValidator, FloatValidator, StrValidator,
                    UserValidator(Operation_binary("__gt__", placeholder, PyIntN(0))),
                    UserValidator(Operation_binary("__floordiv__", placeholder, PyIntN(0))),
                    Validator_and(IntValidator, Operation_binary("__gt__", placeholder, PyIntN(0)))}}

\* A ^ B or ~A for validators A and B.
Combine ==
    /\ \E c \in CombinedSet :
          /\ spec' = [kind |-> "combined", op |-> c.op, a |-> c.a, b |-> c.b]
          /\ validator' = IF c.op = "__xor__" THEN Validator_xor(c.a, c.b)
                                              ELSE Validator_invert(c.a)
    /\ same' = FALSE
    /\ simplified' = FALSE
    /\ tested' = None
    /\ outcome' = None
    /\ position' = 0
    /\ stage_err' = NoError
    /\ ForgetExpression
    /\ ForgetDecorator
    /\ UNCHANGED <<pipevars, objvars>>

\* p(x) for a combined predicate.
CallCombined ==
    /\ validator.kind \in CombinedKinds
    /\ \E x \in ExprInputSet :
          /\ tested' = x
          /\ outcome' = Predicate_call(validator, x)
    /\ position' = 0
    /\ stage_err' = NoError
    /\ UNCHANGED <<spec, validator, same, simplified>>
    /\ UNCHANGED <<pipevars, exprvars, decovars, objvars>>

NextExpression ==
    BuildExpression \/ Evaluate \/ ResolveExpression \/ CallPredicate
    \/ Decorate \/ CallDecorated \/ Combine \/ CallCombined

SpecExpression == Init /\ [][NextExpression]_vars
---------------------------------------------------------------------------
(* The ComposedValidator as an object: it is constructed, and add, extend  *)
(* and |= are called on it.  The loop of extend is taken one item at a     *)
(* time; it runs over a tuple, a str, or self.validators of a              *)
(* ComposedValidator, which for the object itself is the list the loop     *)
(* appends to.                                                             *)

\* The longest list self.validators the model follows.
MaxMembers == 4

\* The object under test given to one of its own methods.
Self == [kind |-> "self"]

\* isinstance(item, Validator)
IsValidatorItem(item) == item = Self \/ IsInstanceOfValidator(item)

\* isinstance(item, ComposedValidator)
IsComposedItem(item) == item = Self \/ (IsInstanceOfValidator(item) /\ IsComposed(item))

\* _iterable(items)
IsIterableItems(items) == items = Self \/ IsIterable(items)

\* What iter(items) walks through: for the object itself the list
\* self.validators as it is when the next item is asked for.
Elements(items, validators) ==
    IF items = Self THEN validators
    ELSE IF IsValue(items) THEN <<items>>
    ELSE IF IsComposed(items) THEN items.validators
    ELSE items.items

\* for item in items: no item taken yet; length is len(items) at this time.
Loop(items, validators) ==
    [items |-> items, taken |-> 0, length |-> Len(Elements(items, validators))]

\* What a method does before it returns or enters a loop: the exception it
\* raises, self.validators afterwards, and the loop it enters.
Done(e, validators) == [err |-> e, validators |-> validators, loops |-> <<>>]

\* ComposedValidator.extend, up to its loop.
ComposedValidator_extend(validators, items) ==
    IF ~IsIterableItems(items) THEN Done(TypeError, validators)
    ELSE [err |-> NoError, validators |-> validators,
          loops |-> <<Loop(items, validators)>>]

\* add appending a ComposedValidator as a member.
ComposedValidator_add_nested(validators, item) ==
    IF ~IsValidatorItem(item) THEN Done(TypeError, validators)
    ELSE Done(NoError, Append(validators, item))

\* ComposedValidator.add
ComposedValidator_add(validators, item) ==
    IF ~IsValidatorItem(item) THEN Done(TypeError, validators)
    ELSE IF IsComposedItem(item) THEN ComposedValidator_extend(validators, item)
    ELSE Done(NoError, Append(validators, item))

\* ComposedValidator.__ior__
ComposedValidator_ior(validators, other) ==
    IF IsValidatorItem(other) THEN ComposedValidator_add(validators, other)
    ELSE ComposedValidator_extend(validators, other)

\* ComposedValidator.__init__, up to the loop of self.extend(items) over
\* the tuple made of the items.
ComposedValidator_init(items) ==
    IF ~IsIterableItems(items) THEN Done(TypeError, <<>>)
    ELSE IF Len(Elements(items, <<>>)) = 0 THEN Done(ValueError, <<>>)
    ELSE ComposedValidator_extend(<<>>, PyList(Elements(items, <<>>)))

\* The validators, the other objects and the ComposedValidator given to the
\* methods, and the sequences of them.
MemberSet == {EmptyValidator, FromSpecClass("int"), FromSpecClass("str")}
OtherComposed == ComposedValidator(<<FromSpecClass("str"), EmptyValidator>>)
ItemSet == MemberSet \cup {I1, OtherComposed}
ItemsSet ==
    {PyList(<<>>), PyStr("r"), I1}
    \cup {PyList(<<a>>) : a \in ItemSet}
    \cup {PyList(<<a, b>>) : a \in {EmptyValidator, OtherComposed},
                            b \in {FromSpecClass("int"), I1, OtherComposed}}

\* A method begins: it raises, returns, or enters the loop of extend.
Begin(name, arg, r) ==
    /\ frames = <<>>
    /\ Len(r.validators) <= MaxMembers
    /\ op' = [name |-> name, arg |-> arg]
    /\ before' = IF name = "__init__" THEN <<>> ELSE composed.validators
    /\ raised' = r.err
    /\ frames' = r.loops
    /\ composed' = IF r.err = NoError
                   THEN [kind |-> "ComposedValidator", validators |-> r.validators]
                   ELSE IF name = "__init__" THEN None ELSE composed
    /\ UNCHANGED <<pipevars, valvars, exprvars, decovars, outvars>>

\* c = ComposedValidator(items), or copy(c)
Construct ==
    \E items \in ItemsSet \cup {OtherComposed}
                 \cup (IF composed # None THEN {composed} ELSE {}) :
       Begin("__init__", items, ComposedValidator_init(items))

\* c.add(item)
Add ==
    /\ composed # None
    /\ \E item \in ItemSet \cup {Self} :
          Begin("add", item, ComposedValidator_add(composed.validators, item))

\* c.extend(items)
Extend ==
    /\ composed # None
    /\ \E items \in ItemsSet \cup {OtherComposed, Self, PyList(<<Self>>)} :
          Begin("extend", items, ComposedValidator_extend(composed.validators, items))

\* c |= other
Ior ==
    /\ composed # None
    /\ \E other \in ItemSet \cup ItemsSet \cup {Self} :
          Begin("__ior__", other, ComposedValidator_ior(composed.validators, other))

\* The innermost loop of extend asks for its next item: the loop ends, or
\* self.add(item) is called, which raises, appends the item, or enters the
\* loop of extend over the members of the item.
ExtendLoop ==
    /\ frames # <<>>
    /\ LET f == frames[Len(frames)]
           outer == SubSeq(frames, 1, Len(frames) - 1)
           items == Elements(f.items, composed.validators)
       IN IF f.taken >= Len(items)
          THEN /\ frames' = outer
               /\ UNCHANGED <<composed, raised>>
          ELSE LET r == ComposedValidator_add(composed.validators, items[f.taken + 1]) IN
               /\ Len(r.validators) <= MaxMembers
               /\ raised' = r.err
               /\ IF r.err = NoError
                  THEN /\ frames' = Append(outer, [f EXCEPT !.taken = f.taken + 1]) \o r.loops
                       /\ composed' = [composed EXCEPT !.validators = r.validators]
                  ELSE /\ frames' = <<>>
                       /\ composed' = IF op.name = "__init__" THEN None ELSE composed
    /\ UNCHANGED <<op, before>>
    /\ UNCHANGED <<pipevars, valvars, exprvars, decovars, outvars>>

NextComposed == Construct \/ Add \/ Extend \/ Ior \/ ExtendLoop

SpecComposed == Init /\ [][NextComposed]_vars
---------------------------------------------------------------------------
(* The ProcessorBundle that also processes output values, with its stages  *)
(* ParseInput and ParseOutput: stages are appended, and process_input or   *)
(* process_output is called on a tuple of values.                          *)

\* ParseOutput.__init__
ParseOutput(items) == [kind |-> "ParseOutput", items |-> items]

\* What a stage's method returns when it returns args.
Handed(values) == [err |-> NoError, result |-> values, invoked |-> <<>>]

\* processor.process_input(*args): ParseInput parses, a ParseOutput has the
\* method of Processor, which returns args.
Stage_process_input(p, values) ==
    IF p.kind = "ParseInput" THEN parse(p.items, values) ELSE Handed(values)

\* processor.process_output(*args): ParseOutput parses, a ParseInput has
\* the method of Processor, which returns args.
Stage_process_output(p, values) ==
    IF p.kind = "ParseOutput" THEN parse(p.items, values) ELSE Handed(values)

\* zip(count(start=0), reversed(self.processors)) for n processors: the
\* level and the insertion index of the stage of each iteration.
InputPairs(n) == [k \in 1..n |-> [level |-> k - 1, stage |-> n - k + 1]]

\* zip(map(lambda x: len(self.processors) - x + 1, count(start=0)),
\*     self.processors)
OutputPairs(n) == [k \in 1..n |-> [level |-> n - (k - 1) + 1, stage |-> k]]

\* The loop of process_input or process_output from its k-th iteration on:
\* the exception that escapes, the values returned, and the stages run.
RECURSIVE Bundle_loop(_, _, _, _, _)
Bundle_loop(method, ps, pairs, k, values) ==
    IF k > Len(pairs) THEN [err |-> NoError, result |-> values, visited |-> <<>>]
    ELSE With(IF method = "input" THEN Stage_process_input(ps[pairs[k].stage], values)
                                  ELSE Stage_process_output(ps[pairs[k].stage], values),
         LAMBDA r :
            IF r.err # NoError
            THEN [err |-> IF IsParsingError(r.err) /\ Len(ps) > 1
                          THEN [r.err EXCEPT !.level = {pairs[k].level}]
                          ELSE r.err,
                  result |-> <<>>,
                  visited |-> <<pairs[k].stage>>]
            ELSE With(Bundle_loop(method, ps, pairs, k + 1, r.result), LAMBDA rest :
                 [rest EXCEPT !.visited = <<pairs[k].stage>> \o rest.visited]))

\* ProcessorBundle.process_input
ProcessorBundle_process_input(ps, values) ==
    Bundle_loop("input", ps, InputPairs(Len(ps)), 1, values)

\* ProcessorBundle.process_output
ProcessorBundle_process_output(ps, values) ==
    Bundle_loop("output", ps, OutputPairs(Len(ps)), 1, values)

\* The stages appended, and the values processed.
OutputStageSet ==
    {ParseInput(ItemsOf(a, b, Arity)) : a \in TransformSet, b \in TransformSet}
    \cup {ParseOutput(ItemsOf(a, b, Arity)) : a \in TransformSet, b \in TransformSet}
OutputValueSet == {I1, Sx}

\* ProcessorBundle.append
BundleAppend ==
    /\ Len(bundle) < MaxStages
    /\ \E p \in OutputStageSet : bundle' = Append(bundle, p)
    /\ direction' = "none"
    /\ visited' = <<>>
    /\ failed' = NoError
    /\ produced' = <<>>
    /\ UNCHANGED <<pipevars, valvars, exprvars, decovars, compvars>>

\* bundle.process_input(*args)
ProcessInput ==
    /\ \E as \in [1..Arity -> OutputValueSet] :
          LET r == ProcessorBundle_process_input(bundle, [i \in 1..Arity |-> Bare(as[i])]) IN
          /\ visited' = r.visited
          /\ failed' = r.err
          /\ produced' = r.result
    /\ direction' = "input"
    /\ UNCHANGED bundle
    /\ UNCHANGED <<pipevars, valvars, exprvars, decovars, compvars>>

\* bundle.process_output(*args)
ProcessOutput ==
    /\ \E as \in [1..Arity -> OutputValueSet] :
          LET r == ProcessorBundle_process_output(bundle, [i \in 1..Arity |-> Bare(as[i])]) IN
          /\ visited' = r.visited
          /\ failed' = r.err
          /\ produced' = r.result
    /\ direction' = "output"
    /\ UNCHANGED bundle
    /\ UNCHANGED <<pipevars, valvars, exprvars, decovars, compvars>>

NextOutput == BundleAppend \/ ProcessInput \/ ProcessOutput

SpecOutput == Init /\ [][NextOutput]_vars

TypeOK ==
    /\ pc \in {"idle", "running", "raised", "called", "rejected"}
    /\ Len(processors) <= MaxStages
    /\ done \in 0..Len(processors)

---------------------------------------------------------------------------
(* Properties of the pipeline.                                             *)

Last(seq) == seq[Len(seq)]

\* The stage whose run was logged last.
LastStage == processors[Last(ran)]

\* args carries the skip-validation (skip-parsing) flag.
SkipsValidation(arg) == IsWrapper(arg) /\ ~arg.validate
SkipsParsing(arg) == IsWrapper(arg) /\ ~arg.parse

\* The stages procs[hi], procs[hi-1], ..., procs[lo] applied in that order,
\* each to the output of the one before it.
RECURSIVE ApplyDown(_, _, _, _)
ApplyDown(procs, hi, lo, as) ==
    IF hi < lo THEN as
    ELSE ApplyDown(procs, hi - 1, lo, Processor_process_input(procs[hi], as).result)

\* C1: process_input runs the stages in reverse insertion order (the last
\* appended first), each stage receiving the output of the stage run before
\* it, so that the values returned are s1(s2(...sn(args))).
C1_ReverseInsertionOrder ==
    LET n == Len(processors) IN
    /\ ran = [j \in 1..Len(ran) |-> n - j + 1]
    /\ pc = "running" => args = ApplyDown(processors, n, n - done + 1, bound)
    /\ pc = "called" => /\ Len(ran) = n
                        /\ args = ApplyDown(processors, n, 1, bound)

\* [ParseInput(str, ...), ValidateInput(int, ...)] appended in that order and
\* called with integers: validated as integers, then converted to strings.
C1_Witness ==
    /\ pc = "called"
    /\ processors = <<ParseInput(ItemsOf(Callable("str"), Callable("str"), Arity)),
                      ValidateInput(ItemsOf(FromSpecClass("int"), FromSpecClass("int"), Arity))>>
    /\ bound = [i \in 1..Arity |-> Bare(I1)]
    /\ ran = <<2, 1>>
    /\ received = [i \in 1..Arity |-> PyStr("1")]

\* C2: a ParsingError or ValidationError that escapes process_input has no
\* level when the pipeline holds exactly one stage, and has a level when it
\* holds two or more.
C2_LevelOnlyWhenMultistage ==
    (pc = "raised" /\ IsParsingError(err)) =>
        /\ Len(processors) = 1 => err.level = {}
        /\ Len(processors) >= 2 => err.level # {}

C2_Witness ==
    /\ pc = "raised"
    /\ err.kind = "ValidationError"
    /\ Len(processors) = 1
    /\ err.level = {}

\* C3 as stated: in a pipeline of more than one stage the level attribute of
\* the error raised by the k-th stage to run is k.
C3_LevelIsOneBased ==
    (pc = "raised" /\ IsParsingError(err) /\ Len(processors) > 1) =>
        err.level = {Len(ran)}

\* C3, amended: the level attribute of the error raised by the k-th stage to
\* run is k - 1 (0 for the stage that runs first); the error's text shows it
\* as "(at level k)".
C3_LevelIsZeroBased ==
    (pc = "raised" /\ IsParsingError(err) /\ Len(processors) > 1) =>
        /\ err.level = {Len(ran) - 1}
        /\ ShownLevel(err) = {Len(ran)}

\* The second stage to run rejects the second argument.
C3_Witness ==
    /\ pc = "raised"
    /\ IsParsingError(err)
    /\ Len(processors) > 1
    /\ Len(ran) = 2
    /\ err.level = {1}
    /\ ErrorStr(err) = "Invalid argument at position 2: Type int expected but got str (at level 2)"

\* The 1-based positions of as that a validating stage with the given
\* validators checks and rejects.
Rejected(validators, as) ==
    {i \in 1..Len(as) :
        ~SkipsValidation(as[i]) /\ ~Check(validators[i], as[i].wrapped_value)}

\* C4: the ValidationError a validating stage raises carries the 0-based
\* index of the first input whose validator rejects it; inputs skipped
\* because of their validate=False flag still count toward the index.
C4_PositionalAttribution ==
    (pc = "raised" /\ err.kind = "ValidationError") =>
        LET bad == Rejected(LastStage.items, args) IN
        /\ bad # {}
        /\ err.param + 1 \in bad
        /\ \A i \in bad : err.param + 1 <= i

\* A skipped first argument followed by a rejected one: position 1.
C4_Witness ==
    /\ pc = "raised"
    /\ err.kind = "ValidationError"
    /\ SkipsValidation(args[1])
    /\ err.param = 1

\* C5: fail-fast.  Once the item at position i of a stage fails, no item of
\* that stage at a later position is invoked; once a stage fails no further
\* stage runs and no values are returned.
C5_FailFast ==
    pc = "raised" =>
        /\ IsParsingError(err) =>
              \A j \in 1..Len(calls) :
                  calls[j].stage = Last(ran) => calls[j].param <= err.param
        /\ received = <<>>
        /\ ~ENABLED RunStage
        /\ ~ENABLED CallWrapped

\* The first stage to run fails at position 0 with more stages and more
\* positions left.
C5_Witness ==
    /\ pc = "raised"
    /\ IsParsingError(err)
    /\ err.param = 0
    /\ Len(LastStage.items) > 1
    /\ Len(ran) = 1
    /\ Len(processors) > 1

\* C6: a validating stage whose validators all accept returns the inputs it
\* was given: same order, same wrappers, same flags, no value transformed.
C6_ValidateReturnsInputs ==
    [][(pc = "running" /\ pc' = "running" /\ done' = done + 1
         /\ processors[Last(ran')].kind = "ValidateInput")
       => args' = args]_vars

\* A validating stage has accepted arguments of which one is wrapped.
C6_Witness ==
    /\ pc = "running"
    /\ done >= 1
    /\ LastStage.kind = "ValidateInput"
    /\ calls # <<>>
    /\ \E i \in 1..Len(args) : IsWrapper(args[i]) /\ i \in given

\* C7: a parsing stage returns, at every position i, input i itself when it
\* carries the parse=False flag and transform[i] applied to the unwrapped
\* input i otherwise.
C7_ParseOutputs ==
    [][(pc = "running" /\ pc' = "running" /\ done' = done + 1
         /\ processors[Last(ran')].kind = "ParseInput")
       => LET items == processors[Last(ran')].items IN
          /\ Len(args') = Len(items)
          /\ Len(args) = Len(items)
          /\ \A i \in 1..Len(items) :
                args'[i] = IF SkipsParsing(args[i])
                           THEN args[i]
                           ELSE Bare(Apply(items[i], args[i].wrapped_value).value)]_vars

\* A parsing stage has run on a supplied parse=False argument and on a value
\* it transformed.
C7_Witness ==
    /\ pc = "running"
    /\ ran = <<Len(processors)>>
    /\ LastStage.kind = "ParseInput"
    /\ \E i \in given : SkipsParsing(bound[i]) /\ args[i] = bound[i]
    /\ \E i \in given : ~SkipsParsing(bound[i]) /\ args[i] # bound[i]

\* C8 as stated: the ParsingError raised for a failing transform carries the
\* position of the transform and the transform's name as its description.
C8_DescriptionIsTransformName ==
    (pc = "raised" /\ err.kind = "ParsingError") =>
        /\ err.param + 1 \in 1..Len(LastStage.items)
        /\ err.description = LastStage.items[err.param + 1].name

\* C8, amended: the ParsingError carries the position of the failing
\* transform and, as its description, the message of the exception the
\* transform raised.
C8_DescriptionIsExceptionMessage ==
    (pc = "raised" /\ err.kind = "ParsingError") =>
        /\ err.param + 1 \in 1..Len(LastStage.items)
        /\ ~SkipsParsing(args[err.param + 1])
        /\ LET r == Apply(LastStage.items[err.param + 1],
                          args[err.param + 1].wrapped_value) IN
           r.raised /\ err.description = r.message

\* int fails on 'x' at position 1.
C8_Witness ==
    /\ pc = "raised"
    /\ err.kind = "ParsingError"
    /\ err.param = 1
    /\ err.description = "invalid literal for int() with base 10: 'x'"

\* C9: a value passed in with validate=False is validated by no validating
\* stage and a value passed in with parse=False is transformed by no parsing
\* stage, whatever stages run before.
C9_FlagsApplyToEveryStage ==
    \A j \in 1..Len(calls) :
        LET passed == bound[calls[j].param + 1] IN
        /\ calls[j].kind = "validate" => ~SkipsValidation(passed)
        /\ calls[j].kind = "parse" => ~SkipsParsing(passed)

\* C10: a default value is validated by no validating stage, transformed by
\* no parsing stage, is the cause of no error, and reaches the wrapped
\* function unchanged and unwrapped.
C10_DefaultsUntouched ==
    \A i \in (DOMAIN bound) \ given :
        /\ \A j \in 1..Len(calls) : calls[j].param + 1 # i
        /\ (pc = "raised" /\ IsParsingError(err)) => err.param + 1 # i
        /\ pc = "called" => received[i] = ParamDefault(i)

\* The default 1 of the first parameter went through a stage validating str
\* and a stage converting to str.
C10_Witness ==
    /\ pc = "called"
    /\ 1 \notin given
    /\ Len(processors) = 2
    /\ processors[1] = ValidateInput(ItemsOf(FromSpecClass("str"), FromSpecClass("str"), Arity))
    /\ processors[2] = ParseInput(ItemsOf(Callable("str"), Callable("str"), Arity))
    /\ ~Check(processors[1].items[1], ParamDefault(1))
    /\ Apply(processors[2].items[1], ParamDefault(1)).value # ParamDefault(1)

\* C11: a stage built with N items and called on a number of inputs other
\* than N raises ValueError, which is neither a ParsingError nor a
\* ValidationError; none of its validators or transforms is invoked, and
\* process_input lets the error through without a level, in a pipeline of
\* several stages too.
C11_ArityMismatchIsValueError ==
    (pc = "raised" /\ Len(LastStage.items) # Len(args)) =>
        /\ err.kind = "ValueError"
        /\ err.kind \notin {"ParsingError", "ValidationError"}
        /\ err.level = {}
        /\ \A j \in 1..Len(calls) : calls[j].stage # Last(ran)

\* A stage with one item too few is reached after a full stage has run in a
\* pipeline of two stages.
C11_Witness ==
    /\ pc = "raised"
    /\ Len(processors) = 2
    /\ ran = <<2, 1>>
    /\ Len(processors[1].items) = Arity - 1
    /\ Len(args) = Arity
    /\ calls # <<>>
    /\ err = ValueError

\* C12: appending an object that is not a Processor raises TypeError and
\* leaves the list of stages as it was; appending a Processor adds it at the
\* end, the earlier stages keeping their places; no step of the pipeline
\* (append, +=, process_input) shortens or reorders the list.
C12_AppendOnly ==
    [][/\ (pc' = "rejected" /\ pc = "idle") =>
            /\ offered' \in NonProcessorSet
            /\ err' = TypeError
            /\ processors' = processors
       /\ processors' # processors =>
            /\ pc = "idle"
            /\ \E p \in StageSet : processors' = Append(processors, p)
       /\ Len(processors') >= Len(processors)
       /\ SubSeq(processors', 1, Len(processors)) = processors]_vars

\* A list of validators was offered to a pipeline that holds one stage.
C12_Witness ==
    /\ pc = "rejected"
    /\ Len(processors) = 1
    /\ offered = PyList(<<FromSpecClass("int"), FromSpecClass("int")>>)
    /\ err = TypeError

---------------------------------------------------------------------------
(* Properties of the validators.                                           *)

\* C13: from_spec applied to an object that is a Validator returns that
\* object, so that from_spec(from_spec(s)) is from_spec(s) for every
\* specification s.
C13_FromSpecIdempotent ==
    (spec # None /\ IsValidatorObject(spec) /\ ~simplified) =>
        (validator = spec /\ same)

\* from_spec was applied to the ComposedValidator that from_spec([int, 1])
\* returned.
C13_Witness ==
    /\ spec = from_spec(PyList(<<PyClass("int"), PyIntN(1)>>))
    /\ IsComposed(spec)
    /\ validator = spec
    /\ same
    /\ ~simplified

\* C14: the validator resolved from the class object accepts every value,
\* True and False included, right after from_spec as well as after the
\* simplification of a validating stage.
C14_ObjectAcceptsEverything ==
    (spec = PyClass("object") /\ outcome # None) => outcome.valid

\* What a TypeValidator answers, from the claim's words: the types an
\* instance test accepts are the value's class and its base classes.
C15_Expected(v, x) ==
    IF ~v.check_subclasses \/ (x.type = "bool" /\ ~v.check_bool_subclasses)
    THEN x.type \in v.types
    ELSE \E t \in v.types : t \in Mro(x.type)

\* C15: TypeValidator.check tests exact membership of the value's type in
\* the types when check_subclasses is false or the value is a bool and
\* check_bool_subclasses is false, and tests isinstance otherwise; with the
\* default flags a validator over int (or over str, float, int) rejects True
\* and False, and an instance of a subclass of a listed class is accepted.
C15_TypeValidatorCheck ==
    (validator # None /\ validator.kind = "TypeValidator"
        /\ outcome # None /\ position = 0) =>
        /\ outcome.valid = C15_Expected(validator, tested)
        /\ ~outcome.raised
        /\ (validator.check_subclasses /\ ~validator.check_bool_subclasses
            /\ validator.types \subseteq {"int", "str", "float"}
            /\ tested \in {PyTrue, PyFalse}) => ~outcome.valid
        /\ (validator.check_subclasses /\ "Qux" \in validator.types
            /\ tested = PyObject("Baz")) => outcome.valid

\* The validator over str, float, int with the default flags was called on
\* True.
C15_Witness ==
    /\ validator = TypeValidator({"str", "float", "int"}, TRUE, FALSE)
    /\ tested = PyTrue
    /\ position = 0
    /\ outcome # None
    /\ ~outcome.valid
    /\ "int" \in Mro(tested.type)

\* C16: ValueValidator.check is true iff the value equals some member and,
\* when match_types is set, has that member's type; with match_types True
\* does not match the member 1.
C16_ValueValidatorCheck ==
    (validator # None /\ validator.kind = "ValueValidator"
        /\ outcome # None /\ position = 0) =>
        /\ outcome.valid =
              \E i \in 1..Len(validator.values) :
                  /\ PyEq(tested, validator.values[i])
                  /\ validator.match_types => tested.type = validator.values[i].type
        /\ (validator.match_types /\ tested = PyTrue
            /\ \A i \in 1..Len(validator.values) :
                  PyEq(validator.values[i], PyIntN(1)) => validator.values[i] = PyIntN(1))
           => ~outcome.valid

\* The validator of the values 1 and 'x' with match_types was called on True.
C16_Witness ==
    /\ validator = ValueValidator(<<PyIntN(1), Sx>>, TRUE)
    /\ tested = PyTrue
    /\ position = 0
    /\ outcome # None
    /\ ~outcome.valid
    /\ PyEq(tested, validator.values[1])

\* The value is an integer of the sequence start, start + step, ... that
\* ends before stop.
InSequence(x, start, stop, step) ==
    /\ x.type = "int"
    /\ \E k \in 0..(2 * MaxInt) :
          /\ IntOf(x) = start + k * step
          /\ step > 0 => IntOf(x) < stop
          /\ step < 0 => IntOf(x) > stop

\* The value equals an integer of that sequence (as True equals 1 and 9.0
\* equals 9).
EqualsInSequence(x, start, stop, step) ==
    \E n \in (0 - MaxInt - 1)..(MaxInt + 1) :
        PyEq(x, PyIntN(n)) /\ InSequence(PyIntN(n), start, stop, step)

\* C17 as stated: a RangeValidator accepts a value iff its exact type is int
\* and it is a member of the arithmetic sequence; booleans and non-integers
\* are rejected.
C17_RangeAcceptsIntsOnly ==
    (validator # None /\ validator.kind = "RangeValidator"
        /\ outcome # None /\ position = 0) =>
        outcome.valid =
            InSequence(tested, validator.start, validator.stop, validator.step)

\* C17 amended: with match_types set (the default) a RangeValidator accepts
\* a value iff its exact type is int and it is a member of the arithmetic
\* sequence, so that booleans and floats are rejected; with match_types
\* unset it accepts every value equal to a member of the sequence, True and
\* 9.0 included.
C17_RangeCheck ==
    (validator # None /\ validator.kind = "RangeValidator"
        /\ outcome # None /\ position = 0) =>
        LET v == validator IN
        /\ v.match_types =>
              outcome.valid = InSequence(tested, v.start, v.stop, v.step)
        /\ ~v.match_types =>
              outcome.valid = EqualsInSequence(tested, v.start, v.stop, v.step)
        /\ (v.match_types /\ tested.type # "int") => ~outcome.valid
        /\ (v.match_types /\ v.start = 0 /\ v.step = 1 /\ tested.type \in {"int", "float"})
              => outcome.valid = (/\ tested.type = "int"
                                  /\ Twice(tested) >= 0
                                  /\ Twice(tested) < 2 * v.stop)

\* The validator of range(0, MaxInt) with match_types was called on 9.5.
C17_Witness ==
    /\ validator = RangeValidator(0, MaxInt, 1, TRUE)
    /\ tested = PyFloatHalves(19)
    /\ position = 0
    /\ outcome # None
    /\ ~outcome.valid

\* Calling the validator on the value makes a user's function raise: the
\* validator is a UserValidator whose function raises, or a
\* ComposedValidator in which the member reached last is one.
UserFunctionRaises(v, x) ==
    LET raises(u) == u.kind = "UserValidator" /\ CallFunction(u.func, x).raised IN
    IF IsComposed(v)
    THEN LET c == Validator_check(v, x) IN
         c.invoked # <<>> /\ raises(v.validators[Last(c.invoked)])
    ELSE raises(v)

\* C18: in a validating stage (which holds the simplified validators), a
\* user's function that raises at position i
\* makes the stage raise ValidationError at position i, be the user
\* validator the validator of the position or a member of a
\* ComposedValidator at that position.
C18_RaisingPredicateIsInvalid ==
    (position > 0 /\ validator # None
        /\ UserFunctionRaises(Simplify(validator), tested)) =>
        /\ stage_err.kind = "ValidationError"
        /\ stage_err.param = position - 1

\* C19: when a UserValidator rejects a value, the explanation is the message
\* of the error its function raised if that message is not empty, and
\* otherwise (a false result, or an error with an empty message) is
\* 'Expression <function name> evaluated to False'.
C19_UserValidatorExplanation ==
    (validator # None /\ validator.kind = "UserValidator"
        /\ validator.func.kind = "function"
        /\ outcome # None /\ position = 0 /\ ~outcome.valid) =>
        LET r == CallFunction(validator.func, tested) IN
        outcome.error =
            IF r.raised /\ r.message # ""
            THEN r.message
            ELSE "Expression " \o validator.func.name \o " evaluated to False"

\* The 1-based position of the first member that accepts the value or
\* raises, or the number of members when there is none.
RECURSIVE FirstStop(_, _, _)
FirstStop(v, x, i) ==
    IF i >= Len(v.validators) THEN Len(v.validators)
    ELSE LET c == Validator_check(v.validators[i], x) IN
         IF c.raised \/ c.truthy THEN i ELSE FirstStop(v, x, i + 1)

\* C20: a ComposedValidator checks its members from left to right in the
\* order given and stops at the first that accepts: no member after an
\* accepting one is invoked; for the members [falsy, truthy, boom] the value
\* is valid and boom is not invoked.
C20_LeftToRightShortCircuit ==
    (validator # None /\ IsComposed(validator) /\ outcome # None /\ position = 0) =>
        LET k == FirstStop(validator, tested, 1) IN
        /\ outcome.invoked = [j \in 1..k |-> j]
        /\ \A j \in 1..Len(validator.validators) :
              (Check(validator.validators[j], tested)
               /\ \A h \in 1..(j - 1) : ~Validator_check(validator.validators[h], tested).raised)
              => /\ outcome.valid
                 /\ \A h \in 1..Len(outcome.invoked) : outcome.invoked[h] <= j
        /\ validator.validators = <<UserValidator(PyFunction("falsy")),
                                    UserValidator(PyFunction("truthy")),
                                    UserValidator(PyFunction("boom"))>>
              => (outcome.valid /\ outcome.invoked = <<1, 2>>)

\* [falsy, truthy, boom] was called on 1: valid, with boom not invoked.
C20_Witness ==
    /\ validator = ComposedValidator(<<UserValidator(PyFunction("falsy")),
                                       UserValidator(PyFunction("truthy")),
                                       UserValidator(PyFunction("boom"))>>)
    /\ tested = PyIntN(1)
    /\ position = 0
    /\ outcome # None
    /\ outcome.valid
    /\ outcome.invoked = <<1, 2>>

---------------------------------------------------------------------------
(* Properties of the expressions.                                          *)

\* arg op k for the int literal k.
WithLiteral(name, k) == Operation_binary(name, placeholder, PyIntN(k))

\* The operator of the expression e applied directly to what its operands
\* evaluate to at x.
Direct(e, x) ==
    LET g == Operation_eval(e.g, ToNumber(x))
        h == Operation_eval(e.h, ToNumber(x))
        r == IF e.kind = "UnaryOperation"
             THEN (IF g.raised THEN g ELSE PyUnary(e.op.func, g.value))
             ELSE IF g.raised THEN g
             ELSE IF h.raised THEN h
             ELSE PyBinary(e.op.func, g.value, h.value)
    IN  IF r.raised THEN r ELSE Returned(ToPy(r.value))

\* x op k computed on the integers n and k, for the operators whose result
\* on two ints is an int or a bool.
OnIntegers(name, n, k) ==
    CASE name = "__add__" -> PyIntN(n + k)
      [] name = "__sub__" -> PyIntN(n - k)
      [] name = "__mul__" -> PyIntN(n * k)
      [] name = "__floordiv__" -> PyIntN(n \div k)
      [] name = "__mod__" -> PyIntN(n % k)
      [] name = "__pow__" -> PyIntN(n * n)
      [] name = "__lshift__" -> PyIntN(n * 4)
      [] name = "__rshift__" -> PyIntN(n \div 4)
      [] name = "__lt__" -> IF n < k THEN PyTrue ELSE PyFalse
      [] name = "__le__" -> IF n <= k THEN PyTrue ELSE PyFalse
      [] name = "__eq__" -> IF n = k THEN PyTrue ELSE PyFalse
      [] name = "__ne__" -> IF n # k THEN PyTrue ELSE PyFalse
      [] name = "__ge__" -> IF n >= k THEN PyTrue ELSE PyFalse
      [] name = "__gt__" -> IF n > k THEN PyTrue ELSE PyFalse

\* The integer the operand stands for.
OperandInt == CHOOSE n \in (0 - Wide)..Wide : PyIntN(n) = operand

\* C21: an expression called on x gives what its operator gives when applied
\* directly to what its operands give at x -- the placeholder gives x, a
\* literal gives itself -- so that on an int n, arg op k is n op k, arg*2+1
\* is n*2+1 and (arg+1)**2 is (n+1)*(n+1); the exception of an operator, as
\* a division by zero, leaves the call with the operator's own message.
C21_EvaluationIsDirectApplication ==
    value # None =>
        /\ expression.kind = "Identity" => value = Returned(operand)
        /\ expression.kind \in {"BinaryOperation", "UnaryOperation"} =>
              value = Direct(expression, operand)
        /\ operand.type = "int" =>
              LET n == OperandInt IN
              /\ \A name \in {"__add__", "__sub__", "__mul__", "__floordiv__", "__mod__",
                              "__pow__", "__lshift__", "__rshift__"} :
                    expression = WithLiteral(name, 2) =>
                        value = Returned(OnIntegers(name, n, 2))
              /\ \A name \in ComparisonFuncs, k \in {0, MaxInt} :
                    expression = WithLiteral(name, k) =>
                        value = Returned(OnIntegers(name, n, k))
              /\ expression = Operation_unary("__neg__", placeholder) =>
                    value = Returned(PyIntN(0 - n))
              /\ expression = Operation_unary("__invert__", placeholder) =>
                    value = Returned(PyIntN(0 - n - 1))
              /\ expression = Operation_binary("__add__", WithLiteral("__mul__", 2), PyIntN(1)) =>
                    value = Returned(PyIntN(n * 2 + 1))
              /\ expression = Operation_binary("__pow__", WithLiteral("__add__", 1), PyIntN(2)) =>
                    value = Returned(PyIntN((n + 1) * (n + 1)))
              /\ expression = WithLiteral("__floordiv__", 0) =>
                    value = Raised("integer division or modulo by zero")
              /\ expression = WithLiteral("__truediv__", 0) =>
                    value = Raised("division by zero")
              /\ expression = WithLiteral("__mod__", 0) =>
                    value = Raised("integer modulo by zero")
              /\ expression = Operation_binary("__and__", WithLiteral("__gt__", 0),
                                               WithLiteral("__floordiv__", 0)) =>
                    value = Raised("integer division or modulo by zero")

\* arg*2+1 was called on 3 and gave 7.
C21_Witness ==
    /\ expression = Operation_binary("__add__", WithLiteral("__mul__", 2), PyIntN(1))
    /\ operand = PyIntN(3)
    /\ value = Returned(PyIntN(7))

\* The decorator last applied was given the expression e at the 1-based
\* position i and no Ellipsis, and the decorated function has been called.
DecoratedWith(class, i) ==
    /\ got # None
    /\ decorator.class = class
    /\ i \in DOMAIN decorator.args
    /\ IsOperation(decorator.args[i])
    /\ \A j \in DOMAIN decorator.args : decorator.args[j] # Ellipsis

\* C22: an expression e given to validate or parse is applied to the
\* argument at its position: the call of a function decorated with
\* validate(.., e, ..) raises when e is false at that argument, and a
\* function decorated with parse(.., e, ..) receives e(x) in place of x.
C22_ExpressionAppliedAtItsPosition ==
    \A i \in 1..Arity :
        /\ DecoratedWith("validate", i) =>
              LET r == Operation_eval(decorator.args[i], ToNumber(sent[i])) IN
              (r.raised \/ ~Truth(r.value)) => got.err # NoError
        /\ DecoratedWith("parse", i) =>
              LET r == Operation_call(decorator.args[i], sent[i]) IN
              ~r.raised => got.err = NoError /\ got.result[i] = r.value

\* The validator under test was made from an expression, and it rejected
\* the value because the expression evaluated to something false.
RejectedByExpression ==
    /\ outcome # None
    /\ IsOperation(spec)
    /\ ~outcome.valid
    /\ ~Operation_eval(spec, ToNumber(tested)).raised

\* C23: the description of the rejection of x by a validator made from an
\* expression is the text of the expression with the literal of x in place
\* of the placeholder, as (15 >= 0) & (15 < 10), which holds both bounds.
C23_DescriptionIsExpressionText ==
    RejectedByExpression => outcome.error = Operation_format(spec, tested)

---------------------------------------------------------------------------
(* Properties of the combined predicates.                                  *)

\* The predicate under test is A ^ B: of two validators, or of two
\* expressions, and these are A and B.
IsXorOfPredicates == spec.kind = "combined" /\ spec.op = "__xor__"
IsXorOfExpressions ==
    IsOperation(spec) /\ spec.kind = "BinaryOperation" /\ spec.op = Operator_attr("__xor__")
XorLeft == IF IsXorOfPredicates THEN spec.a ELSE spec.g
XorRight == IF IsXorOfPredicates THEN spec.b ELSE spec.h

\* p used as a predicate is valid for x.
Accepts(p, x) == Predicate_test(Resolved(p), x)

\* Exactly one of A and B is valid for the value tested.
ExactlyOneValid == Accepts(XorLeft, tested) # Accepts(XorRight, tested)

\* e(x) is True or False.
GivesBool(e, x) ==
    LET r == Operation_call(e, x) IN ~r.raised /\ r.value.type = "bool"

\* C24 as stated: A ^ B is valid for x iff exactly one of A and B is valid
\* for x, for validators and for placeholder expressions alike.
C24_XorIsExactlyOne ==
    (tested # None /\ (IsXorOfPredicates \/ IsXorOfExpressions)) =>
        (outcome.valid <=> ExactlyOneValid)

\* C24: A ^ B on validators is valid for x iff exactly one of A and B is
\* valid for x; A ^ B on placeholder expressions is the bitwise xor of the
\* two results, and is valid iff exactly one of A and B is valid whenever
\* both evaluate to a bool.
C24_XorOfPredicatesAndOfBooleans ==
    /\ (tested # None /\ IsXorOfPredicates) => (outcome.valid <=> ExactlyOneValid)
    /\ (tested # None /\ IsXorOfExpressions
          /\ GivesBool(spec.g, tested) /\ GivesBool(spec.h, tested)) =>
             (outcome.valid <=> ExactlyOneValid)

\* (arg > 0) ^ (arg < 5) accepts 0: False ^ True.
C24_Witness ==
    /\ spec = Operation_binary("__xor__",
                  Operation_binary("__gt__", placeholder, PyIntN(0)),
                  Operation_binary("__lt__", placeholder, PyIntN(5)))
    /\ tested = PyIntN(0)
    /\ outcome.valid

\* The predicate under test is ~A: of a validator, or of an expression, and
\* this is A.
IsInvertOfPredicate == spec.kind = "combined" /\ spec.op = "__invert__"
IsInvertOfExpression ==
    IsOperation(spec) /\ spec.kind = "UnaryOperation" /\ spec.op = Operator_attr("__invert__")
Inverted == IF IsInvertOfPredicate THEN spec.a ELSE spec.g

\* e(x) is an int or a bool other than -1, the one number whose bitwise
\* complement is 0.
GivesIntButMinusOne(e, x) ==
    LET r == Operation_call(e, x) IN
    ~r.raised /\ r.value.type \in {"int", "bool"} /\ r.value # PyIntN(0 - 1)

\* C25 as stated: ~A is valid for x iff A is invalid for x, for validators
\* and for placeholder expressions.
C25_NegationIsOpposite ==
    (tested # None /\ (IsInvertOfPredicate \/ IsInvertOfExpression)) =>
        (outcome.valid <=> ~Accepts(Inverted, tested))

\* C25: ~A on a validator is valid for x iff A is invalid for x; ~A on a
\* placeholder expression is the bitwise complement of A's result, valid
\* iff A evaluates to an int or bool other than -1.
C25_NegationOfPredicatesComplementOfExpressions ==
    /\ (tested # None /\ IsInvertOfPredicate) =>
          (outcome.valid <=> ~Accepts(Inverted, tested))
    /\ (tested # None /\ IsInvertOfExpression) =>
          (outcome.valid <=> GivesIntButMinusOne(spec.g, tested))

\* ~(arg > 0) accepts 1, which arg > 0 accepts: ~True is -2.
C25_Witness ==
    /\ spec = Operation_unary("__invert__",
                  Operation_binary("__gt__", placeholder, PyIntN(0)))
    /\ tested = PyIntN(1)
    /\ outcome.valid
    /\ Accepts(spec.g, tested)

---------------------------------------------------------------------------
(* Properties of simplify().                                               *)

\* The validator the object under test was resolved to, before any
\* simplify().
Original == from_spec(spec)

\* The validator under test is v.simplify() for the TypeValidator or
\* ValueValidator v the object was resolved to, and it was called on a value.
SimplifiedSimpleValidator ==
    /\ spec # None
    /\ simplified
    /\ tested # None
    /\ position = 0
    /\ Original.kind \in {"TypeValidator", "ValueValidator"}
    /\ validator = Simplify(Original)

\* C26: for every TypeValidator or ValueValidator v and every input x,
\* v.simplify() accepts x iff v accepts x.
C26_SimplifyIsEquivalent ==
    SimplifiedSimpleValidator =>
        (outcome.valid <=> Validator_call(Original, tested).valid)

\* The validator under test is c.simplify() for the ComposedValidator c the
\* object was resolved to, and it was called on a value.
SimplifiedComposedValidator ==
    /\ spec # None
    /\ simplified
    /\ tested # None
    /\ position = 0
    /\ Original.kind = "ComposedValidator"
    /\ validator = Simplify(Original)

\* C27: the result of c.simplify() on an input (accept, reject, or an error
\* escaping from a user function) is that of the ComposedValidator c.
C27_ComposedSimplifyPreservesOutcome ==
    SimplifiedComposedValidator =>
        LET original == Validator_call(Original, tested) IN
        /\ outcome.raised = original.raised
        /\ outcome.valid = original.valid

---------------------------------------------------------------------------
(* Properties of the ComposedValidator as an object.                       *)

\* No method is running on the object.
Settled == frames = <<>>

\* C28: after construction and after any sequence of add, extend and |=, a
\* ComposedValidator holds at least one member, every member is a Validator
\* and none is a ComposedValidator, a nested one being replaced by its
\* members in order; constructing one from an empty sequence raises
\* ValueError, and adding a non-Validator raises TypeError and leaves the
\* members as they were.
C28_FlatAndNotEmpty ==
    Settled =>
        /\ composed # None =>
              /\ Len(composed.validators) >= 1
              /\ \A i \in DOMAIN composed.validators :
                    /\ IsValidatorItem(composed.validators[i])
                    /\ ~IsComposedItem(composed.validators[i])
        /\ (op # None /\ op.name = "__init__" /\ op.arg = PyList(<<>>)) =>
              composed = None /\ raised = ValueError
        /\ (op # None /\ op.name \in {"add", "__ior__"} /\ op.arg = I1) =>
              raised = TypeError /\ composed.validators = before
        /\ (op # None /\ op.name \in {"add", "__ior__"} /\ op.arg = OtherComposed) =>
              raised = NoError /\ composed.validators = before \o OtherComposed.validators

\* c.add(other) has returned for a ComposedValidator other of two members.
C28_Witness ==
    /\ Settled
    /\ op # None
    /\ op.name = "add"
    /\ op.arg = OtherComposed
    /\ Len(before) >= 1
    /\ composed.validators = before \o <<FromSpecClass("str"), EmptyValidator>>

\* C29: add, extend and |= terminate for every Validator argument, the
\* object itself included: a loop of extend over a sequence that held n
\* items when the loop began ends once it has taken n items.
C29_LoopsEnd ==
    \A i \in DOMAIN frames : frames[i].taken <= frames[i].length

---------------------------------------------------------------------------
(* Properties of the processing of output values.                          *)

\* The level process_input attaches to an error raised by the stage of
\* insertion index s, in a bundle of n stages.
InputLevelOf(n, s) ==
    IF n > 1
    THEN {InputPairs(n)[k].level : k \in {j \in 1..n : InputPairs(n)[j].stage = s}}
    ELSE {}

\* process_output runs the stages in insertion order, process_input in the
\* reverse order.
SymmetricOrder ==
    /\ direction = "output" => \A k \in DOMAIN visited : visited[k] = k
    /\ direction = "input" => \A k \in DOMAIN visited : visited[k] = Len(bundle) - k + 1

\* C30: process_output runs the stages in insertion order, the reverse of
\* process_input, and the level it attaches to an error raised by a stage
\* is the level process_input attaches to an error raised by that stage.
C30_OutputSymmetricToInput ==
    /\ SymmetricOrder
    /\ (direction = "output" /\ IsParsingError(failed)) =>
          failed.level = InputLevelOf(Len(bundle), visited[Len(visited)])

====
